---- MODULE Spec2Model ----
(***************************************************************************)
(* A model of the beehive replicated consensus core: the raft Node (its    *)
(* Process / ProcessConfChange callers, main loop, Ready goroutine and     *)
(* Stop), the rendezvous line, and the registry state machine the Node     *)
(* applies committed entries to.  The Raft engine, the transport and the   *)
(* ticker are the environment.                                             *)
(***************************************************************************)
EXTENDS Integers, Sequences, FiniteSets, TLC

\* ------------------------------------------------------------------ bounds
NumCallers == 2
NumStoppers == 2
MaxIndex == 3
MaxTicks == 1
MaxRuns == 2
SnapCount == 1

\* The id this node was created with (NewNode's id argument).
SelfID == 1
\* Another member of the cluster, proposing through its own Node.
PeerID == 2

Callers == 1..NumCallers
Stoppers == 1..NumStoppers

\* ----------------------------------------------------------------- values
Nil == <<>>
NoErr == "nil"
EmptyMap == [x \in {} |-> x]
MapPut(m, k, v) == [x \in DOMAIN m \cup {k} |-> IF x = k THEN v ELSE m[x]]
MapDel(m, k) == [x \in DOMAIN m \ {k} |-> m[x]]
Max(a, b) == IF a >= b THEN a ELSE b
NoID == [NodeID |-> 0, Seq |-> 0]

\* ------------------------------------------------------- registry (Store)
NilColony == [Leader |-> 0, Followers |-> <<>>]
noOp == [t |-> "noOp"]
NoBee == [ID |-> 0, Hive |-> 0, App |-> "", Colony |-> NilColony, Detached |-> FALSE]
newBeeIDReq == [t |-> "newBeeID"]
newHiveIDReq(addr) == [t |-> "newHiveID", Addr |-> addr]
addBeeReq(id) ==
  [t |-> "addBee",
   Info |-> [ID |-> id, Hive |-> SelfID, App |-> "x", Colony |-> NilColony,
             Detached |-> FALSE]]
delBeeReq(id) == [t |-> "delBee", ID |-> id]
moveBeeReq(id, from, to) == [t |-> "moveBee", ID |-> id, FromHive |-> from, ToHive |-> to]
updateColonyReq(old, new) == [t |-> "updateColony", Old |-> old, New |-> new]
lockMappedCellReq(col, app, cells) ==
  [t |-> "lockMappedCell", Colony |-> col, App |-> app, Cells |-> cells]
transferCellsReq(from, to) == [t |-> "transferCells", From |-> from, To |-> to]
NilData == [t |-> "nil"]

\* Colony: IsNil iff Leader == 0; Contains asks for the leader or a follower;
\* Equals compares the leader and the followers.
Members(s) == {s[i] : i \in DOMAIN s}
IsNil(c) == c.Leader = 0
Contains(c, id) == c.Leader = id \/ id \in Members(c.Followers)
Equals(c, d) == c.Leader = d.Leader /\ Members(c.Followers) = Members(d.Followers)

\* The cell store: for each (App, Cell) key, the Colony owning it.
newCellStore == EmptyMap
\* colony(app, cell): the owner, and whether there is one.
cellStoreColony(s, app, k) ==
  IF <<app, k>> \in DOMAIN s THEN [ok |-> TRUE, c |-> s[<<app, k>>]]
                              ELSE [ok |-> FALSE, c |-> NilColony]
cellStoreAssign(s, app, k, c) == MapPut(s, <<app, k>>, c)
\* cells(bee): the cells owned by a colony this bee leads.
cellStoreCells(s, bee) == {key[2] : key \in {x \in DOMAIN s : s[x].Leader = bee}}
\* updateColony(app, old, new): each cell of app owned by old goes to new.
cellStoreUpdateColony(s, app, old, new) ==
  [key \in DOMAIN s |-> IF key[1] = app /\ Equals(s[key], old) THEN new ELSE s[key]]

newRegistry ==
  [HiveID |-> 1, BeeID |-> 0, Hives |-> EmptyMap, Bees |-> EmptyMap,
   Store |-> newCellStore]

\* What a registry method leaves behind: the state, the reply, the error, and
\* whether it ended in glog.Fatalf.
Out(r, reply, err) == [r |-> r, reply |-> reply, err |-> err, fatal |-> FALSE]
Fatal(r) == [r |-> r, reply |-> Nil, err |-> NoErr, fatal |-> TRUE]

\* addHive without the loop over r.Hives that looks for the address.
addHiveUnchecked(r, info) ==
  Out([r EXCEPT !.Hives = MapPut(@, info.ID, info)], Nil, NoErr)

addHive(r, info) ==
  IF \E h \in DOMAIN r.Hives : r.Hives[h].Addr = info.Addr /\ r.Hives[h].ID # info.ID
    THEN Fatal(r)
    ELSE Out([r EXCEPT !.Hives = MapPut(@, info.ID, info)], Nil, NoErr)

delHive(r, id) ==
  IF id \notin DOMAIN r.Hives
    THEN Out(r, Nil, "no such hive")
    ELSE Out([r EXCEPT !.Hives = MapDel(@, id)], Nil, NoErr)

newHiveID(r, addr) ==
  LET r1 == [r EXCEPT !.HiveID = @ + 1]
      o == IF addr # "" THEN addHive(r1, [ID |-> r1.HiveID, Addr |-> addr])
                        ELSE Out(r1, Nil, NoErr)
  IN IF o.fatal THEN o ELSE Out(o.r, <<r1.HiveID>>, NoErr)

newBeeID(r) ==
  LET r1 == [r EXCEPT !.BeeID = @ + 1] IN Out(r1, <<r1.BeeID>>, NoErr)

\* addBee storing the info before it looks for the ID in r.Bees.
addBeeOverwrite(r, info) ==
  IF info.ID = 0 THEN Fatal(r)
  ELSE IF info.ID \in DOMAIN r.Bees
    THEN Out([r EXCEPT !.Bees = MapPut(@, info.ID, info)], Nil, "ErrDuplicateBee")
  ELSE IF r.BeeID < info.ID THEN Fatal(r)
  ELSE Out([r EXCEPT !.Bees = MapPut(@, info.ID, info)], Nil, NoErr)

addBee(r, info) ==
  IF info.ID = 0 THEN Fatal(r)
  ELSE IF info.ID \in DOMAIN r.Bees THEN Out(r, Nil, "ErrDuplicateBee")
  ELSE IF r.BeeID < info.ID THEN Fatal(r)
  ELSE Out([r EXCEPT !.Bees = MapPut(@, info.ID, info)], Nil, NoErr)

delBee(r, id) ==
  IF id \notin DOMAIN r.Bees THEN Out(r, Nil, "ErrNoSuchBee")
  ELSE Out([r EXCEPT !.Bees = MapDel(@, id)], Nil, NoErr)

moveBee(r, m) ==
  IF m.ID \notin DOMAIN r.Bees THEN Out(r, Nil, "ErrNoSuchBee")
  ELSE IF r.Bees[m.ID].Hive # m.FromHive THEN Out(r, Nil, "ErrInvalidParam")
  ELSE IF m.FromHive = m.ToHive THEN Out(r, Nil, NoErr)
  ELSE Out([r EXCEPT !.Bees[m.ID].Hive = m.ToHive], Nil, NoErr)

\* mustFindBee(id) ends the process when the bee is not in Bees.
mustFindBee(r, id) == id \in DOMAIN r.Bees

\* registry.updateColony.  The bees it looks up with mustFindBee, in the order
\* of the code: the new leader, the old leader when it changes, the old
\* followers that leave, the new followers, the new leader.
updateColony(r, up) ==
  IF IsNil(up.New) \/ IsNil(up.Old) THEN Out(r, Nil, "ErrInvalidParam")
  ELSE IF ~mustFindBee(r, up.New.Leader) THEN Fatal(r)
  ELSE LET b == r.Bees[up.New.Leader]
           r1 == [r EXCEPT !.Store = cellStoreUpdateColony(@, b.App, up.Old, up.New)]
           leaving == {f \in Members(up.Old.Followers) : ~Contains(up.New, f)}
           joining == Members(up.New.Followers)
           looked == (IF up.Old.Leader # up.New.Leader THEN {up.Old.Leader} ELSE {})
                       \cup leaving \cup joining
           colonyOf(id) ==
             IF id = up.New.Leader \/ id \in joining THEN up.New
             ELSE IF id \in leaving THEN NilColony
             ELSE IF id = up.Old.Leader /\ up.Old.Leader # up.New.Leader
               THEN IF Contains(up.New, id) THEN up.New ELSE NilColony
             ELSE r.Bees[id].Colony
       IN IF \E id \in looked : ~mustFindBee(r, id) THEN Fatal(r1)
          ELSE Out([r1 EXCEPT !.Bees = [id \in DOMAIN @ |->
                                         [@[id] EXCEPT !.Colony = colonyOf(id)]]],
                   Nil, NoErr)

\* The first loop of registry.lock over l.Cells: locked, openk and l.Colony as
\* the loop leaves them, and whether it ended in glog.Fatal.
RECURSIVE lockScan(_, _, _, _, _, _)
lockScan(s, app, cells, locked, openk, col) ==
  IF cells = <<>>
    THEN [s |-> s, locked |-> locked, openk |-> openk, col |-> col, fatal |-> FALSE]
  ELSE LET k == Head(cells)
           o == cellStoreColony(s, app, k)
       IN IF ~o.ok
            THEN IF locked
              THEN lockScan(cellStoreAssign(s, app, k, col), app, Tail(cells),
                            locked, openk, col)
              ELSE lockScan(s, app, Tail(cells), locked, Append(openk, k), col)
          ELSE IF locked /\ ~Equals(o.c, col)
            THEN [s |-> s, locked |-> locked, openk |-> openk, col |-> col,
                  fatal |-> TRUE]
          ELSE lockScan(s, app, Tail(cells), TRUE, openk, o.c)

\* r.Store.assign(app, k, col) for each k of a list.
RECURSIVE assignAll(_, _, _, _)
assignAll(s, app, cells, col) ==
  IF cells = <<>> THEN s
  ELSE assignAll(cellStoreAssign(s, app, Head(cells), col), app, Tail(cells), col)

\* registry.lock with every cell handed to the caller's colony, owned or not.
lockTakeOver(r, l) ==
  IF l.Colony.Leader = 0 THEN Out(r, NilColony, "ErrInvalidParam")
  ELSE Out([r EXCEPT !.Store = assignAll(@, l.App, l.Cells, l.Colony)],
           l.Colony, NoErr)

\* registry.lock
lock(r, l) ==
  IF l.Colony.Leader = 0 THEN Out(r, NilColony, "ErrInvalidParam")
  ELSE LET sc == lockScan(r.Store, l.App, l.Cells, FALSE, <<>>, l.Colony) IN
    IF sc.fatal THEN Fatal([r EXCEPT !.Store = sc.s])
    ELSE IF sc.locked
      THEN Out([r EXCEPT !.Store = assignAll(sc.s, l.App, sc.openk, sc.col)],
               sc.col, NoErr)
    ELSE Out([r EXCEPT !.Store = assignAll(sc.s, l.App, l.Cells, sc.col)],
             sc.col, NoErr)

\* registry.transfer
transfer(r, t) ==
  IF t.From.Leader \notin DOMAIN r.Bees THEN Out(r, Nil, "ErrNoSuchBee")
  ELSE LET i == r.Bees[t.From.Leader]
           keys == cellStoreCells(r.Store, t.From.Leader)
       IN IF keys = {} THEN Out(r, Nil, "ErrInvalidParam")
          ELSE Out([r EXCEPT !.Store =
                      [key \in DOMAIN @ \cup {<<i.App, k>> : k \in keys} |->
                         IF key[1] = i.App /\ key[2] \in keys THEN t.To ELSE @[key]]],
                   Nil, NoErr)

\* registry.Apply: the type switch over the request variants.
Apply(r, req) ==
  CASE req.t = "noOp" -> Out(r, Nil, NoErr)
    [] req.t = "newHiveID" -> newHiveID(r, req.Addr)
    [] req.t = "newBeeID" -> newBeeID(r)
    [] req.t = "addBee" -> addBee(r, req.Info)
    [] req.t = "delBee" -> delBee(r, req.ID)
    [] req.t = "moveBee" -> moveBee(r, req)
    [] req.t = "updateColony" -> updateColony(r, req)
    [] req.t = "lockMappedCell" -> lock(r, req)
    [] req.t = "transferCells" -> transfer(r, req)
    [] OTHER -> Out(r, Nil, "ErrUnsupportedRequest")

\* registry.beeForCells, a read: the bee found, hasAll, the error, and whether
\* the check of the looked-up bee's ID ended the process.
RECURSIVE beeForCellsScan(_, _, _, _, _)
beeForCellsScan(r, app, cells, info, hasAll) ==
  IF cells = <<>>
    THEN [info |-> info, hasAll |-> hasAll,
          err |-> IF info.ID = 0 THEN "ErrNoSuchBee" ELSE NoErr, fatal |-> FALSE]
  ELSE LET o == cellStoreColony(r.Store, app, Head(cells)) IN
    IF ~o.ok THEN beeForCellsScan(r, app, Tail(cells), info, FALSE)
    ELSE LET found == IF o.c.Leader \in DOMAIN r.Bees THEN r.Bees[o.c.Leader]
                                                      ELSE NoBee
             info1 == IF info.ID = 0 THEN found ELSE info
             hasAll1 == hasAll /\ (info.ID = 0 \/ info.ID = o.c.Leader)
         IN IF info.ID = 0 /\ found.ID # o.c.Leader
              THEN [info |-> found, hasAll |-> hasAll, err |-> NoErr, fatal |-> TRUE]
            ELSE IF ~hasAll1
              THEN [info |-> info1, hasAll |-> FALSE, err |-> NoErr, fatal |-> FALSE]
            ELSE beeForCellsScan(r, app, Tail(cells), info1, hasAll1)

beeForCells(r, app, cells) == beeForCellsScan(r, app, cells, NoBee, TRUE)

\* registry.ApplyConfChange
registryApplyConfChange(r, cc, n) ==
  CASE cc.Type = "AddNode" ->
         IF n.ID # cc.NodeID THEN Fatal(r)
         ELSE IF n.Addr # "" THEN addHive(r, n)
         ELSE Out(r, Nil, NoErr)
    [] cc.Type = "RemoveNode" -> Out(delHive(r, cc.NodeID).r, Nil, NoErr)
    [] OTHER -> Out(r, Nil, NoErr)

\* --------------------------------------------------------------- encoding
\* The schema-tagged encoder: a value is written under its registered type
\* name and decodes only as that type.
EmptyBytes == [gob |-> "empty"]
EncodeRequest(req) == [gob |-> "Request", v |-> req]
DecodeRequest(b) == IF b.gob = "Request" THEN [ok |-> TRUE, v |-> b.v]
                                         ELSE [ok |-> FALSE, v |-> [ID |-> NoID, Data |-> NilData]]
MustEncode(info) == [gob |-> "NodeInfo", v |-> info]
NoInfo == [ID |-> 0, Addr |-> ""]
DecodeNodeInfo(b) == IF b.gob = "NodeInfo" THEN [ok |-> TRUE, v |-> b.v]
                                           ELSE [ok |-> FALSE, v |-> NoInfo]

\* ------------------------------------------------------ rendezvous (line)
\* reqs maps a RequestID to the one-slot channel of the caller blocked on it;
\* a channel is named by the caller that holds it.
lineWait(reqs, id, c) == MapPut(reqs, id, c)
lineCancel(reqs, id) == MapDel(reqs, id)
\* call: deliver to the slot of res.ID and remove it; drop if absent.
lineCallReqs(reqs, res) == MapDel(reqs, res.ID)
lineCallChans(reqs, chans, res) ==
  IF res.ID \in DOMAIN reqs /\ Len(chans[reqs[res.ID]]) < 1
    THEN [chans EXCEPT ![reqs[res.ID]] = Append(@, res)]
    ELSE chans

\* ------------------------------------------------------------------ state
VARIABLES
  gen,          \* n.gen: the last Seq handed out
  callers,      \* the Process / ProcessConfChange calls, one per caller thread
  stoppers,     \* the Stop calls, one per stopping thread
  reqs,         \* n.line: RequestID -> channel
  chans,        \* the one-slot reply channels, by caller
  done,         \* n.done is closed
  halted,       \* the process ended in glog.Fatalf
  loop,         \* Node.Start: its position and its locals
  gor,          \* the Ready goroutines in flight
  store,        \* n.store: the registry
  storage,      \* n.storage: WAL and snapshot store
  raftStorage,  \* n.raftStorage: the engine's MemoryStorage
  engine,       \* n.node: the Raft engine (environment)
  regm,         \* registry.m with the threads inside the registry's methods
  sync,         \* the Sync handler: its channels, its map and its threads
  ghost         \* history kept for stating the properties

vars == <<gen, callers, stoppers, reqs, chans, done, halted, loop, gor, store,
          storage, raftStorage, engine, regm, sync, ghost>>

\* -------------------------------------------------------- the Raft engine
EmptySnap == [Index |-> 0, Data |-> [gob |-> "empty"], Nodes |-> {}]
IsEmptySnap(s) == s.Index = 0

LastIndex(e) == e.offset + Len(e.log)

\* What the engine hands out on its Ready channel.
Ready(e) ==
  LET ents == SelectSeq(e.log, LAMBDA x : x.Index > e.stable)
  IN [Snapshot |-> e.snap,
      HardState |-> [Commit |-> e.commit],
      Entries |-> ents,
      CommittedEntries |->
        SelectSeq(e.log, LAMBDA x : x.Index > e.applied /\ x.Index <= e.commit),
      Messages |-> {ents[i].Index : i \in DOMAIN ents}]

ContainsUpdates(rd) ==
  \/ ~IsEmptySnap(rd.Snapshot)
  \/ rd.Entries # <<>>
  \/ rd.CommittedEntries # <<>>

LastOf(ents, dflt) == IF ents = <<>> THEN dflt ELSE ents[Len(ents)].Index

\* Node.Advance(): the engine marks the last Ready it handed out as done.
engineAdvance(e) ==
  [e EXCEPT !.stable = Max(@, e.given.stable),
            !.applied = Max(@, e.given.applied),
            !.snap = IF e.given.snap = @.Index THEN EmptySnap ELSE @]

\* Node.ApplyConfChange(cc): the membership after cc; a cc with NodeID None
\* changes nothing.
engineApplyConfChange(nodes, cc) ==
  CASE cc.NodeID = 0 -> nodes
    [] cc.Type = "AddNode" -> nodes \cup {cc.NodeID}
    [] cc.Type = "RemoveNode" -> nodes \ {cc.NodeID}
    [] OTHER -> nodes

\* ---------------------------------------------------- applying an entry
NoRes == [ID |-> NoID, Data |-> Nil, Err |-> NoErr]
\* What applying one entry does: the Store and membership after it, the
\* Response handed to line.call (has, res), and for the record the request's
\* ID, whether the Store was invoked for it and what the Store returned.
Eff(st, confs, nodes, has, res, reqid, applied, out, fatal) ==
  [store |-> st, confs |-> confs, nodes |-> nodes, has |-> has, res |-> res,
   reqid |-> reqid, applied |-> applied, out |-> out, fatal |-> fatal]
NoOut == [Req |-> NilData, Data |-> Nil, Err |-> NoErr]
RawOut(req, o) == [Req |-> req.Data, Data |-> o.reply, Err |-> o.err]

\* The Response applyEntry builds for a decoded request and the Store's output.
applyEntryResponse(req, o) == [ID |-> req.ID, Data |-> o.reply, Err |-> o.err]

applyEntry(st, confs, nodes, e) ==
  IF e.Data.gob = "empty"
    THEN Eff(st, confs, nodes, FALSE, NoRes, NoID, FALSE, NoOut, FALSE)
  ELSE LET d == DecodeRequest(e.Data) IN
    IF ~d.ok THEN Eff(st, confs, nodes, FALSE, NoRes, NoID, FALSE, NoOut, TRUE)
    ELSE IF d.v.Data.t = "nil"
      THEN Eff(st, confs, nodes, FALSE, NoRes, d.v.ID, FALSE, NoOut, FALSE)
    ELSE LET o == Apply(st, d.v.Data) IN
      Eff(o.r, confs, nodes, TRUE, applyEntryResponse(d.v, o), d.v.ID, TRUE, RawOut(d.v, o),
          o.fatal)

containsNode(nodes, node) == node \in nodes

validConfChange(cc, confs) ==
  IF cc.NodeID = 0 THEN "node id is nil"
  ELSE IF cc.Type = "AddNode" /\ containsNode(confs, cc.NodeID) THEN "duplicate"
  ELSE IF cc.Type = "RemoveNode" /\ ~containsNode(confs, cc.NodeID) THEN "no such node"
  ELSE NoErr

\* The Response applyConfChange builds for a request carried in cc.Context.
applyConfChangeResponse(req, o) == [ID |-> req.ID, Data |-> Nil, Err |-> o.err]

applyConfChange(st, confs, nodes, e) ==
  LET cc == e.Data
      rq == DecodeRequest(cc.Context)
      rid == IF rq.ok THEN rq.v.ID ELSE NoID
  IN
  IF validConfChange(cc, confs) # NoErr
    THEN Eff(st, confs, engineApplyConfChange(nodes, [cc EXCEPT !.NodeID = 0]),
             FALSE, NoRes, rid, FALSE, NoOut, FALSE)
  ELSE LET nodes1 == engineApplyConfChange(nodes, cc) IN
    IF cc.Context.gob = "empty"
      THEN LET o == registryApplyConfChange(st, cc, NoInfo) IN
        Eff(o.r, nodes1, nodes1, FALSE, NoRes, NoID, FALSE, NoOut, o.fatal)
    ELSE LET ni == DecodeNodeInfo(cc.Context) IN
      IF ni.ok
        THEN IF ni.v.ID # cc.NodeID
          THEN Eff(st, nodes1, nodes1, FALSE, NoRes, NoID, FALSE, NoOut, TRUE)
          ELSE LET o == registryApplyConfChange(st, cc, ni.v) IN
            Eff(o.r, nodes1, nodes1, FALSE, NoRes, NoID, FALSE, NoOut, o.fatal)
      ELSE IF ~rq.ok
        THEN Eff(st, nodes1, nodes1, FALSE, NoRes, NoID, FALSE, NoOut, TRUE)
      ELSE LET o == registryApplyConfChange(st, cc, rq.v.Data) IN
        Eff(o.r, nodes1, nodes1, TRUE, applyConfChangeResponse(rq.v, o), rid,
            TRUE, RawOut(rq.v, o), o.fatal)

\* Node.apply: one iteration of its loop over the entries.
applyOne(st, confs, nodes, e) ==
  IF e.Type = "EntryNormal" THEN applyEntry(st, confs, nodes, e)
                            ELSE applyConfChange(st, confs, nodes, e)

\* The replicated state after a log prefix, as the cluster's leader holds it:
\* the source of the snapshots the engine receives.
RECURSIVE Replay(_, _)
Replay(base, ents) ==
  IF ents = <<>> \/ base.fatal THEN base
  ELSE LET f == applyOne(base.store, base.nodes, base.nodes, Head(ents))
       IN Replay([store |-> f.store, nodes |-> f.nodes, fatal |-> f.fatal], Tail(ents))

\* ---------------------------------------------------------------- storage
registrySave(r) == [gob |-> "registry", v |-> r]
registryRestore(b) == b.v

rsApplySnapshot(rs, snap) == [snap |-> snap, ents |-> <<>>]
rsAppend(rs, ents) ==
  IF ents = <<>> THEN rs
  ELSE [rs EXCEPT !.ents = SelectSeq(@, LAMBDA x : x.Index < ents[1].Index) \o ents]
rsCompacted(rs, i) == i <= rs.snap.Index
rsCompact(rs, i, cs, d) ==
  [snap |-> [Index |-> i, Data |-> d, Nodes |-> cs],
   ents |-> SelectSeq(rs.ents, LAMBDA x : x.Index > i)]

\* ------------------------------------------------------------------- Init
\* The registry's RWMutex, free: w is the thread holding the write lock, r the
\* threads holding the read lock; at is where each thread is in its method.
RegistryReaders == {"hives", "bees"}
NoLocks ==
  [w |-> "none", r |-> {},
   at |-> [t \in {"apply"} \cup RegistryReaders |-> "idle"]]

\* The Process calls of the Sync handler, one per calling thread; the request
\* of caller p has the ID p and the reply channel ch[p].
SyncCallers == {"p1", "p2"}
SyncThreads == SyncCallers \cup {"start", "stop", "rcv"}

\* NewSync: reqch and reqs are empty and the mutex is free.  at and arg are
\* each thread's position and the request ID it works on; emitted are the
\* requests handed to the application and not answered yet.  took, bare and
\* sent are history: the threads that obtained the channel of an ID from
\* reqs, the IDs deleted from reqs without the mutex, the responses sent.
NewSync ==
  [reqch |-> <<>>, reqs |-> {}, m |-> "none",
   ch |-> [p \in SyncCallers |-> <<>>],
   at |-> [t \in SyncThreads |-> IF t = "start" THEN "select" ELSE "idle"],
   arg |-> [t \in SyncThreads |-> ""],
   emitted |-> {},
   took |-> [p \in SyncCallers |-> {}],
   bare |-> {},
   sent |-> [p \in SyncCallers |-> 0]]

NoCC == [Type |-> "none", NodeID |-> 0]
NoResult == [via |-> "none", Data |-> Nil, Err |-> NoErr]
IdleCaller ==
  [step |-> 0, kind |-> "none", data |-> NilData, cc |-> NoCC, id |-> NoID,
   out |-> NoResult]

\* StartNode(id, peers, ...): the engine of a new node starts with one
\* committed AddNode entry per peer, its context the peer's NodeInfo.
BootEntry ==
  [Type |-> "EntryConfChange", Index |-> 1,
   Data |-> [Type |-> "AddNode", NodeID |-> SelfID,
             Context |-> MustEncode([ID |-> SelfID, Addr |-> "a"])]]

NoReady ==
  [Snapshot |-> EmptySnap, HardState |-> [Commit |-> 0], Entries |-> <<>>,
   CommittedEntries |-> <<>>, Messages |-> {}]

\* The state NewNode leaves behind on an empty data directory.  variant names
\* the Node that is built: "new" is src/unnamed/part_001, whose engine starts
\* with the boot entry and whose generator is seeded with lastIndex +
\* 2*snapCount; "old" is src/raft/node.go, whose engine is given its peers
\* directly and whose generator is seeded with lastIndex.
Boot(variant) ==
  /\ gen = IF variant = "new" THEN 0 + 2 * SnapCount ELSE 0
  /\ callers = [c \in Callers |-> IdleCaller]
  /\ stoppers = [s \in Stoppers |-> "idle"]
  /\ reqs = EmptyMap
  /\ chans = [c \in Callers |-> <<>>]
  /\ done = FALSE
  /\ halted = FALSE
  /\ loop = [variant |-> variant, pc |-> "select", x |-> 0, ready |-> TRUE,
             snapi |-> 0, appliedi |-> 0, confState |-> {},
             rd |-> NoReady, todo |-> <<>>]
  /\ gor = EmptyMap
  /\ store = newRegistry
  /\ regm = NoLocks
  /\ sync = NewSync
  /\ storage = [wal |-> <<>>, hard |-> [Commit |-> 0], snap |-> EmptySnap,
                segs |-> 1, closed |-> FALSE]
  /\ raftStorage = [snap |-> EmptySnap, ents |-> <<>>]
  /\ engine = [log |-> IF variant = "new" THEN <<BootEntry>> ELSE <<>>,
               offset |-> 0,
               base |-> [store |-> newRegistry, nodes |-> {}, fatal |-> FALSE],
               commit |-> IF variant = "new" THEN 1 ELSE 0,
               stable |-> 0, applied |-> 0,
               nodes |-> IF variant = "new" THEN {} ELSE {SelfID},
               stopped |-> FALSE, snap |-> EmptySnap,
               given |-> [stable |-> 0, applied |-> 0, snap |-> 0], ticks |-> 0]
  /\ ghost = [applyOut |-> EmptyMap,
              delivered |-> [c \in Callers |-> 0],
              answered |-> [c \in Callers |-> 0],
              lost |-> [c \in Callers |-> FALSE],
              processed |-> [c \in Callers |-> FALSE],
              late |-> [c \in Callers |-> FALSE],
              overlap |-> {},
              sent |-> {},
              applied |-> <<[i |-> 0, how |-> "start"]>>,
              replied |-> [newHiveID |-> <<>>, newBeeID |-> <<>>],
              adopted |-> FALSE,
              runs |-> 1]

Init == Boot("new")
InitDo == Boot("old")

\* --------------------------------------------- Process / ProcessConfChange
\* Process with the proposal made before the slot is registered.
ProcessOrderProposeFirst == <<"propose", "wait", "select">>

\* The order of the three statements after the request is encoded.
ProcessOrder == <<"wait", "propose", "select">>
ProcessConfChangeOrder == <<"wait", "propose", "select">>
DoOrder == <<"wait", "propose", "select">>
Returned == Len(ProcessOrder) + 1

OrderOf(kind) ==
  CASE kind = "Process" -> ProcessOrder
    [] kind = "ConfChange" -> ProcessConfChangeOrder
    [] OTHER -> DoOrder
At(c, kind, name) ==
  /\ callers[c].kind = kind
  /\ callers[c].step \in 1..Len(OrderOf(kind))
  /\ OrderOf(kind)[callers[c].step] = name

ProcessInputs == {NilData, newBeeIDReq, delBeeReq(1)}
ConfInputs ==
  { [cc |-> [Type |-> "AddNode", NodeID |-> 1], info |-> [ID |-> 1, Addr |-> "a"]],
    [cc |-> [Type |-> "AddNode", NodeID |-> 2], info |-> [ID |-> 2, Addr |-> "b"]] }

\* n.genID()
genID == [NodeID |-> SelfID, Seq |-> gen + 1]

\* The callers are interchangeable threads: they are numbered in the order in
\* which they take their RequestID.
MayStart(c) ==
  /\ ~halted /\ callers[c].step = 0
  /\ \A d \in Callers : d < c => callers[d].step # 0

\* Process: build and encode the request.
Process_start(c) ==
  /\ MayStart(c) /\ loop.variant = "new"
  /\ \E d \in ProcessInputs :
       callers' = [callers EXCEPT ![c] =
                     [IdleCaller EXCEPT !.step = 1, !.kind = "Process", !.data = d,
                                        !.id = genID]]
  /\ gen' = gen + 1
  /\ UNCHANGED <<stoppers, reqs, chans, done, halted, loop, gor, store, storage,
                 raftStorage, engine, ghost>>
  /\ UNCHANGED regm
  /\ UNCHANGED sync

\* AddNode / RemoveNode -> ProcessConfChange: build and encode the request.
ProcessConfChange_start(c) ==
  /\ MayStart(c) /\ loop.variant = "new"
  /\ \E i \in ConfInputs :
       callers' = [callers EXCEPT ![c] =
                     [IdleCaller EXCEPT !.step = 1, !.kind = "ConfChange",
                                        !.data = i.info, !.cc = i.cc, !.id = genID]]
  /\ gen' = gen + 1
  /\ UNCHANGED <<stoppers, reqs, chans, done, halted, loop, gor, store, storage,
                 raftStorage, engine, ghost>>
  /\ UNCHANGED regm
  /\ UNCHANGED sync

\* ch := n.line.wait(r.ID)
CallWait(c, kind) ==
  /\ ~halted /\ At(c, kind, "wait")
  /\ reqs' = lineWait(reqs, callers[c].id, c)
  /\ callers' = [callers EXCEPT ![c].step = @ + 1]
  /\ UNCHANGED <<gen, stoppers, chans, done, halted, loop, gor, store, storage,
                 raftStorage, engine, ghost>>
  /\ UNCHANGED regm
  /\ UNCHANGED sync

AtIndex(p, i) == [Type |-> p.Type, Index |-> i, Data |-> p.Data]

\* The proposal as the engine takes it.
Proposal(c) ==
  IF callers[c].kind = "ConfChange"
    THEN [Type |-> "EntryConfChange",
          Data |-> [Type |-> callers[c].cc.Type, NodeID |-> callers[c].cc.NodeID,
                    Context |-> EncodeRequest([ID |-> callers[c].id,
                                               Data |-> callers[c].data])]]
    ELSE [Type |-> "EntryNormal",
          Data |-> EncodeRequest([ID |-> callers[c].id, Data |-> callers[c].data])]

\* n.node.Propose / ProposeConfChange: the proposal reaches the leader's log,
\* or it is lost (no leader, ctx done, engine stopped); the error is not
\* looked at.
CallPropose(c, kind) ==
  /\ ~halted /\ At(c, kind, "propose")
  /\ \/ /\ ~engine.stopped /\ LastIndex(engine) < MaxIndex
        /\ engine' = [engine EXCEPT
                        !.log = Append(@, AtIndex(Proposal(c), LastIndex(engine) + 1))]
     \/ UNCHANGED engine
  /\ callers' = [callers EXCEPT ![c].step = @ + 1]
  /\ UNCHANGED <<gen, stoppers, reqs, chans, done, halted, loop, gor, store, storage,
                 raftStorage, ghost>>
  /\ UNCHANGED regm
  /\ UNCHANGED sync

\* What the caller returns for the Response it received.
ProcessResult(res) == [via |-> "reply", Data |-> res.Data, Err |-> res.Err]
ProcessConfChangeResult(res) == [via |-> "reply", Data |-> Nil, Err |-> res.Err]
DoResult(res) == [via |-> "reply", Data |-> res.Data, Err |-> NoErr]
ResultOf(kind, res) ==
  CASE kind = "Process" -> ProcessResult(res)
    [] kind = "ConfChange" -> ProcessConfChangeResult(res)
    [] OTHER -> DoResult(res)

\* case res := <-ch
CallReply(c, kind) ==
  /\ ~halted /\ At(c, kind, "select")
  /\ chans[c] # <<>>
  /\ callers' = [callers EXCEPT ![c].step = Returned,
                                ![c].out = ResultOf(kind, Head(chans[c]))]
  /\ chans' = [chans EXCEPT ![c] = Tail(@)]
  /\ UNCHANGED <<gen, stoppers, reqs, done, halted, loop, gor, store, storage,
                 raftStorage, engine, ghost>>
  /\ UNCHANGED regm
  /\ UNCHANGED sync

\* The ctx.Done case without the cancel.
CtxDoneLineKept(rq, id) == rq

\* n.line after case <-ctx.Done() of Process / ProcessConfChange:
\* n.line.cancel(r.ID)
CtxDoneLine(rq, id) == lineCancel(rq, id)
\* n.line after case <-n.done: the case returns ErrStopped and nothing else.
NodeDoneLine(rq, id) == rq

\* case <-ctx.Done(): the context is the caller's, it may be cancelled or
\* time out at any moment.
CallCtxDone(c, kind) ==
  /\ ~halted /\ At(c, kind, "select")
  /\ reqs' = CtxDoneLine(reqs, callers[c].id)
  /\ callers' = [callers EXCEPT ![c].step = Returned,
                                ![c].out = [via |-> "ctx", Data |-> Nil,
                                            Err |-> "Cancelled"]]
  /\ UNCHANGED <<gen, stoppers, chans, done, halted, loop, gor, store, storage,
                 raftStorage, engine, ghost>>
  /\ UNCHANGED regm
  /\ UNCHANGED sync

\* case <-n.done
CallNodeDone(c, kind) ==
  /\ ~halted /\ At(c, kind, "select")
  /\ done
  /\ reqs' = NodeDoneLine(reqs, callers[c].id)
  /\ callers' = [callers EXCEPT ![c].step = Returned,
                                ![c].out = [via |-> "done", Data |-> Nil,
                                            Err |-> "ErrStopped"]]
  /\ UNCHANGED <<gen, stoppers, chans, done, halted, loop, gor, store, storage,
                 raftStorage, engine, ghost>>
  /\ UNCHANGED regm
  /\ UNCHANGED sync

Process_wait(c) == CallWait(c, "Process")
Process_propose(c) == CallPropose(c, "Process")
Process_reply(c) == CallReply(c, "Process")
Process_ctxDone(c) == CallCtxDone(c, "Process")
Process_nodeDone(c) == CallNodeDone(c, "Process")
ProcessConfChange_wait(c) == CallWait(c, "ConfChange")
ProcessConfChange_propose(c) == CallPropose(c, "ConfChange")
ProcessConfChange_reply(c) == CallReply(c, "ConfChange")
ProcessConfChange_ctxDone(c) == CallCtxDone(c, "ConfChange")
ProcessConfChange_nodeDone(c) == CallNodeDone(c, "ConfChange")

\* ------------------------------------------------------ Start: the loop
MaxGoroutines == 2
InFlight == DOMAIN gor # {}
FreeGor == CHOOSE g \in 1..MaxGoroutines : g \notin DOMAIN gor

\* The goroutine with the advance signalled first.
ReadyOrderAdvanceFirst ==
  <<"advance", "savesnap", "save", "send", "restore", "apply", "snapshot">>
\* The goroutine with the messages sent before the entries are saved.
ReadyOrderSendFirst ==
  <<"savesnap", "send", "save", "restore", "apply", "snapshot", "advance">>

\* The order of the statements of the goroutine that processes one Ready.
ReadyOrder ==
  <<"savesnap", "save", "send", "restore", "apply", "snapshot", "advance">>
GAt(g, name) == g \in DOMAIN gor /\ ReadyOrder[gor[g].step] = name

\* A statement that does nothing for this Ready, as the goroutine can tell
\* from rd alone: it is passed over together with the statement before it.
Idle(rd, name) ==
  \/ name \in {"savesnap", "restore"} /\ IsEmptySnap(rd.Snapshot)
  \/ name = "send" /\ rd.Messages = {}
  \/ name = "apply" /\ rd.CommittedEntries = <<>>
StepAfter(rd, k) ==
  LET todo == {j \in (k + 1)..Len(ReadyOrder) : ~Idle(rd, ReadyOrder[j])}
  IN IF todo = {} THEN Len(ReadyOrder) + 1
     ELSE CHOOSE j \in todo : \A i \in todo : j <= i

\* The goroutine has done the statement it was at.
GorStep(g, r, name) ==
  IF StepAfter(r.rd, r.step) > Len(ReadyOrder)
    THEN MapDel(gor, g)
    ELSE [gor EXCEPT ![g] = [r EXCEPT !.step = StepAfter(r.rd, r.step),
                                      !.phases = Append(@, name)]]

\* The loop without ready = nil.
readyKept == TRUE

\* What the loop leaves in `ready` after it has received a Ready (ready = nil).
readyAfterReceive == FALSE

\* case <-n.ticker: n.node.Tick()
Loop_tick ==
  /\ ~halted /\ loop.variant = "new" /\ loop.pc = "select"
  /\ engine.ticks < MaxTicks
  /\ engine' = [engine EXCEPT !.ticks = @ + 1]
  /\ ghost' = [ghost EXCEPT !.overlap = IF InFlight THEN @ \cup {"tick"} ELSE @]
  /\ UNCHANGED <<gen, callers, stoppers, reqs, chans, done, halted, loop, gor, store,
                 storage, raftStorage>>
  /\ UNCHANGED regm
  /\ UNCHANGED sync

\* case rd := <-ready: ready = nil; go func(rd) {...}(rd)
Loop_ready ==
  /\ ~halted /\ loop.variant = "new" /\ loop.pc = "select"
  /\ loop.ready /\ ~engine.stopped
  /\ ContainsUpdates(Ready(engine))
  /\ Cardinality(DOMAIN gor) < MaxGoroutines
  /\ LET rd == Ready(engine) IN
       /\ gor' = MapPut(gor, FreeGor,
                        [rd |-> rd, step |-> StepAfter(rd, 0), began |-> FALSE, ents |-> <<>>,
                         phases |-> <<>>])
       /\ engine' = [engine EXCEPT !.given =
                       [stable |-> LastOf(rd.Entries, engine.stable),
                        applied |-> Max(LastOf(rd.CommittedEntries, engine.applied),
                                        rd.Snapshot.Index),
                        snap |-> rd.Snapshot.Index]]
  /\ loop' = [loop EXCEPT !.ready = readyAfterReceive]
  /\ UNCHANGED <<gen, callers, stoppers, reqs, chans, done, halted, store, storage,
                 raftStorage, ghost>>
  /\ UNCHANGED regm
  /\ UNCHANGED sync

\* The goroutine's adv <- struct{}{} meets the loop's case <-adv:
\* ready = n.node.Ready(); n.node.Advance()
Loop_adv(g) ==
  /\ ~halted /\ loop.variant = "new" /\ loop.pc = "select"
  /\ GAt(g, "advance")
  /\ loop' = [loop EXCEPT !.ready = TRUE]
  /\ engine' = engineAdvance(engine)
  /\ gor' = GorStep(g, gor[g], "advance")
  /\ UNCHANGED <<gen, callers, stoppers, reqs, chans, done, halted, store, storage,
                 raftStorage, ghost>>
  /\ UNCHANGED regm
  /\ UNCHANGED sync

\* The deferred function with done closed first.
ExitOrderDoneFirst == <<"closeDone", "nodeStop", "storageClose">>

\* The order of the statements of the function Start defers.
ExitOrder == <<"nodeStop", "storageClose", "closeDone">>
XAt(name) == loop.pc = "exiting" /\ ExitOrder[loop.x] = name
ExitStep == IF loop.x = Len(ExitOrder)
              THEN [loop EXCEPT !.pc = "exited", !.x = 0]
              ELSE [loop EXCEPT !.x = @ + 1]

\* Stop's n.stop <- struct{}{} meets the loop's case <-n.stop: return
Loop_stop(s) ==
  /\ ~halted /\ loop.variant = "new" /\ loop.pc = "select"
  /\ stoppers[s] = "select"
  /\ stoppers' = [stoppers EXCEPT ![s] = "wait"]
  /\ loop' = [loop EXCEPT !.pc = "exiting", !.x = 1]
  /\ ghost' = [ghost EXCEPT !.overlap = IF InFlight THEN @ \cup {"stop"} ELSE @]
  /\ UNCHANGED <<gen, callers, reqs, chans, done, halted, gor, store, storage,
                 raftStorage, engine>>
  /\ UNCHANGED regm
  /\ UNCHANGED sync

\* defer: n.node.Stop()
Exit_nodeStop ==
  /\ ~halted /\ XAt("nodeStop")
  /\ engine' = [engine EXCEPT !.stopped = TRUE]
  /\ loop' = ExitStep
  /\ UNCHANGED <<gen, callers, stoppers, reqs, chans, done, halted, gor, store,
                 storage, raftStorage, ghost>>
  /\ UNCHANGED regm
  /\ UNCHANGED sync

\* defer: n.storage.Close()
Exit_storageClose ==
  /\ ~halted /\ XAt("storageClose")
  /\ storage' = [storage EXCEPT !.closed = TRUE]
  /\ loop' = ExitStep
  /\ UNCHANGED <<gen, callers, stoppers, reqs, chans, done, halted, gor, store,
                 raftStorage, engine, ghost>>
  /\ UNCHANGED regm
  /\ UNCHANGED sync

\* defer: close(n.done)
Exit_closeDone ==
  /\ ~halted /\ XAt("closeDone")
  /\ done' = TRUE
  /\ loop' = ExitStep
  /\ UNCHANGED <<gen, callers, stoppers, reqs, chans, halted, gor, store, storage,
                 raftStorage, engine, ghost>>
  /\ UNCHANGED regm
  /\ UNCHANGED sync

\* ------------------------------------------------------------------- Stop
Stop_call(s) ==
  /\ ~halted /\ stoppers[s] = "idle"
  /\ stoppers' = [stoppers EXCEPT ![s] = "select"]
  /\ UNCHANGED <<gen, callers, reqs, chans, done, halted, loop, gor, store, storage,
                 raftStorage, engine, ghost>>
  /\ UNCHANGED regm
  /\ UNCHANGED sync

\* select { ...; case <-n.done: }
Stop_seeDone(s) ==
  /\ ~halted /\ stoppers[s] = "select" /\ done
  /\ stoppers' = [stoppers EXCEPT ![s] = "wait"]
  /\ UNCHANGED <<gen, callers, reqs, chans, done, halted, loop, gor, store, storage,
                 raftStorage, engine, ghost>>
  /\ UNCHANGED regm
  /\ UNCHANGED sync

\* <-n.done
Stop_return(s) ==
  /\ ~halted /\ stoppers[s] = "wait" /\ done
  /\ stoppers' = [stoppers EXCEPT ![s] = "returned"]
  /\ UNCHANGED <<gen, callers, reqs, chans, done, halted, loop, gor, store, storage,
                 raftStorage, engine, ghost>>
  /\ UNCHANGED regm
  /\ UNCHANGED sync

\* ------------------------------------------- Start: the Ready goroutine
\* if !empty && rd.Snapshot.Metadata.Index > snapi { SaveSnap; ApplySnapshot }
Ready_savesnap(g) ==
  /\ ~halted /\ GAt(g, "savesnap")
  /\ LET snap == gor[g].rd.Snapshot IN
       IF ~IsEmptySnap(snap) /\ snap.Index > loop.snapi
         THEN /\ storage' = [storage EXCEPT !.snap = snap]
              /\ raftStorage' = rsApplySnapshot(raftStorage, snap)
              /\ loop' = [loop EXCEPT !.snapi = snap.Index]
         ELSE UNCHANGED <<storage, raftStorage, loop>>
  /\ gor' = GorStep(g, gor[g], "savesnap")
  /\ UNCHANGED <<gen, callers, stoppers, reqs, chans, done, halted, store, engine,
                 ghost>>
  /\ UNCHANGED regm
  /\ UNCHANGED sync

\* n.storage.Save(rd.HardState, rd.Entries); n.raftStorage.Append(rd.Entries)
Ready_save(g) ==
  /\ ~halted /\ GAt(g, "save")
  /\ storage' = [storage EXCEPT !.wal = @ \o gor[g].rd.Entries,
                                !.hard = gor[g].rd.HardState]
  /\ raftStorage' = rsAppend(raftStorage, gor[g].rd.Entries)
  /\ gor' = GorStep(g, gor[g], "save")
  /\ UNCHANGED <<gen, callers, stoppers, reqs, chans, done, halted, loop, store,
                 engine, ghost>>
  /\ UNCHANGED regm
  /\ UNCHANGED sync

\* n.send(rd.Messages)
Ready_send(g) ==
  /\ ~halted /\ GAt(g, "send")
  /\ ghost' = [ghost EXCEPT !.sent = @ \cup gor[g].rd.Messages]
  /\ gor' = GorStep(g, gor[g], "send")
  /\ UNCHANGED <<gen, callers, stoppers, reqs, chans, done, halted, loop, store,
                 storage, raftStorage, engine>>
  /\ UNCHANGED regm
  /\ UNCHANGED sync

\* if !empty && rd.Snapshot.Metadata.Index > appliedi { n.store.Restore(...) }
Ready_restore(g) ==
  /\ ~halted /\ GAt(g, "restore")
  /\ LET snap == gor[g].rd.Snapshot IN
       IF ~IsEmptySnap(snap) /\ snap.Index > loop.appliedi
         THEN /\ store' = registryRestore(snap.Data)
              /\ loop' = [loop EXCEPT !.appliedi = snap.Index]
              /\ ghost' = [ghost EXCEPT !.applied =
                             Append(@, [i |-> snap.Index, how |-> "snapshot"])]
         ELSE UNCHANGED <<store, loop, ghost>>
  /\ gor' = GorStep(g, gor[g], "restore")
  /\ UNCHANGED <<gen, callers, stoppers, reqs, chans, done, halted, storage,
                 raftStorage, engine>>
  /\ UNCHANGED regm
  /\ UNCHANGED sync

\* The slice taken one entry too far: rd.CommittedEntries[appliedi+2-firsti:]
entsToApplySkipFirst(ces, appliedi) ==
  IF ces = <<>> THEN <<>>
  ELSE IF appliedi + 2 - ces[1].Index < Len(ces)
    THEN SubSeq(ces, appliedi + 2 - ces[1].Index + 1, Len(ces))
    ELSE <<>>

\* ents = rd.CommittedEntries[appliedi+1-firsti:]
entsToApply(ces, appliedi) ==
  IF ces = <<>> THEN <<>>
  ELSE IF appliedi + 1 - ces[1].Index < Len(ces)
    THEN SubSeq(ces, appliedi + 1 - ces[1].Index + 1, Len(ces))
    ELSE <<>>

\* The history of one applied entry, for the properties.
GhostApply(f) ==
  LET own(c) == callers[c].step >= 1 /\ callers[c].id = f.reqid
      slot(c) == f.reqid \in DOMAIN reqs /\ reqs[f.reqid] = c
      newchans == IF f.has THEN lineCallChans(reqs, chans, f.res) ELSE chans
  IN [ghost EXCEPT
        !.applyOut = IF f.applied THEN MapPut(@, f.reqid, f.out) ELSE @,
        !.delivered = [c \in Callers |-> @[c] + Len(newchans[c]) - Len(chans[c])],
        !.answered = [c \in Callers |-> @[c] + IF f.applied /\ slot(c) THEN 1 ELSE 0],
        !.lost = [c \in Callers |-> @[c] \/ (f.applied /\ own(c) /\ ~slot(c))],
        !.processed = [c \in Callers |->
                         @[c] \/ (own(c) /\ slot(c) /\ callers[c].step < Returned)],
        !.late = [c \in Callers |->
                    @[c] \/ (own(c) /\ callers[c].out.via = "ctx")]]

\* if len(rd.CommittedEntries) != 0 {...}: the gap check, then n.apply(ents,
\* &confState) one entry at a time; appliedi is set when apply returns.
Ready_apply(g) ==
  /\ ~halted /\ GAt(g, "apply")
  /\ LET r == gor[g]
         ces == r.rd.CommittedEntries
         gap == ~r.began /\ ces # <<>> /\ ces[1].Index > loop.appliedi + 1
         todo == IF r.began THEN r.ents ELSE entsToApply(ces, loop.appliedi)
     IN IF gap
          THEN /\ halted' = TRUE
               /\ UNCHANGED <<reqs, chans, loop, gor, store, engine, ghost>>
        ELSE IF todo = <<>>
          THEN /\ gor' = GorStep(g, r, "apply")
               /\ UNCHANGED <<reqs, chans, halted, loop, store, engine, ghost>>
        ELSE LET e == Head(todo)
                 f == applyOne(store, loop.confState, engine.nodes, e)
                 r1 == [r EXCEPT !.began = TRUE, !.ents = Tail(todo)]
             IN /\ halted' = f.fatal
                /\ store' = f.store
                /\ engine' = [engine EXCEPT !.nodes = f.nodes]
                /\ reqs' = IF f.has THEN lineCallReqs(reqs, f.res) ELSE reqs
                /\ chans' = IF f.has THEN lineCallChans(reqs, chans, f.res) ELSE chans
                /\ ghost' = [GhostApply(f) EXCEPT !.applied =
                               Append(@, [i |-> e.Index, how |-> "entry"])]
                /\ IF Tail(todo) = <<>>
                     THEN /\ loop' = [loop EXCEPT !.confState = f.confs,
                                                  !.appliedi = e.Index]
                          /\ gor' = GorStep(g, r1, "apply")
                     ELSE /\ loop' = [loop EXCEPT !.confState = f.confs]
                          /\ gor' = [gor EXCEPT ![g] = r1]
  /\ UNCHANGED <<gen, callers, stoppers, done, storage, raftStorage>>
  /\ UNCHANGED regm
  /\ UNCHANGED sync

\* The test with one entry more allowed: appliedi-snapi > n.snapCount+1.
snapshotDueLate(appliedi, snapi) == appliedi < snapi \/ appliedi - snapi > SnapCount + 1

\* appliedi-snapi > n.snapCount, in uint64: a negative difference wraps to a
\* huge value.
snapshotDue(appliedi, snapi) == appliedi < snapi \/ appliedi - snapi > SnapCount

\* if appliedi-snapi > n.snapCount { n.snapshot(appliedi, &confState); snapi = appliedi }
Ready_snapshot(g) ==
  /\ ~halted /\ GAt(g, "snapshot")
  /\ IF snapshotDue(loop.appliedi, loop.snapi)
       THEN /\ IF rsCompacted(raftStorage, loop.appliedi)
                 THEN UNCHANGED <<raftStorage, storage>>
                 ELSE LET rs == rsCompact(raftStorage, loop.appliedi, loop.confState,
                                          registrySave(store))
                      IN /\ raftStorage' = rs
                         /\ storage' = [storage EXCEPT !.segs = @ + 1, !.snap = rs.snap]
            /\ loop' = [loop EXCEPT !.snapi = loop.appliedi]
       ELSE UNCHANGED <<raftStorage, storage, loop>>
  /\ gor' = GorStep(g, gor[g], "snapshot")
  /\ UNCHANGED <<gen, callers, stoppers, reqs, chans, done, halted, store, engine,
                 ghost>>
  /\ UNCHANGED regm
  /\ UNCHANGED sync

\* select { case adv <- struct{}{}: ...; case <-n.done: }
Ready_done(g) ==
  /\ ~halted /\ GAt(g, "advance")
  /\ done
  /\ gor' = GorStep(g, gor[g], "advance")
  /\ UNCHANGED <<gen, callers, stoppers, reqs, chans, done, halted, loop, store,
                 storage, raftStorage, engine, ghost>>
  /\ UNCHANGED regm
  /\ UNCHANGED sync

\* ------------------------------------------- the Raft engine (environment)
\* Requests another member's Node proposes: its Seqs overlap this node's.
EmptyEntry == [Type |-> "EntryNormal", Data |-> EmptyBytes]
RemoteEntries ==
  { [Type |-> "EntryNormal",
     Data |-> EncodeRequest([ID |-> [NodeID |-> PeerID, Seq |-> 2 * SnapCount + 1],
                             Data |-> newBeeIDReq])] }


\* An entry of another member reaches the log.
Engine_remote ==
  /\ ~halted /\ ~engine.stopped
  /\ LastIndex(engine) < MaxIndex
  /\ \E p \in RemoteEntries :
       engine' = [engine EXCEPT !.log = Append(@, AtIndex(p, LastIndex(engine) + 1))]
  /\ UNCHANGED <<gen, callers, stoppers, reqs, chans, done, halted, loop, gor, store,
                 storage, raftStorage, ghost>>
  /\ UNCHANGED regm
  /\ UNCHANGED sync

\* A new leader appends the empty entry of its term.
Engine_empty ==
  /\ ~halted /\ ~engine.stopped
  /\ LastIndex(engine) < MaxIndex
  /\ engine' = [engine EXCEPT !.log = Append(@, AtIndex(EmptyEntry, LastIndex(engine) + 1))]
  /\ UNCHANGED <<gen, callers, stoppers, reqs, chans, done, halted, loop, gor, store,
                 storage, raftStorage, ghost>>
  /\ UNCHANGED regm
  /\ UNCHANGED sync

\* The next entry is committed.
Engine_commit ==
  /\ ~halted /\ ~engine.stopped
  /\ engine.commit < LastIndex(engine)
  /\ engine' = [engine EXCEPT !.commit = @ + 1]
  /\ UNCHANGED <<gen, callers, stoppers, reqs, chans, done, halted, loop, gor, store,
                 storage, raftStorage, ghost>>
  /\ UNCHANGED regm
  /\ UNCHANGED sync

\* Conf changes another member proposes through its own Node.
RemoteConfChange(type, id, addr) ==
  [Type |-> "EntryConfChange",
   Data |-> [Type |-> type, NodeID |-> id,
             Context |-> EncodeRequest([ID |-> [NodeID |-> PeerID,
                                                Seq |-> 2 * SnapCount + 1],
                                        Data |-> [ID |-> id, Addr |-> addr]])]]
RemoteConfChanges ==
  { RemoteConfChange("AddNode", PeerID, "b"),
    RemoteConfChange("RemoveNode", SelfID, "a"),
    RemoteConfChange("AddNode", SelfID, "a") }

\* A conf change of another member reaches the log.
Engine_confChange ==
  /\ ~halted /\ ~engine.stopped
  /\ LastIndex(engine) < MaxIndex
  /\ \E p \in RemoteConfChanges :
       engine' = [engine EXCEPT !.log = Append(@, AtIndex(p, LastIndex(engine) + 1))]
  /\ UNCHANGED <<gen, callers, stoppers, reqs, chans, done, halted, loop, gor, store,
                 storage, raftStorage, ghost>>
  /\ UNCHANGED regm
  /\ UNCHANGED sync

\* The leader sends a snapshot that covers one entry, out of covered, this
\* member never got.
EngineSnapshot(covered) ==
  /\ ~halted /\ ~engine.stopped
  /\ LastIndex(engine) < MaxIndex
  /\ engine.commit = LastIndex(engine)
  /\ IsEmptySnap(engine.snap)
  /\ \E p \in covered :
       LET i == LastIndex(engine) + 1
           ref == Replay(engine.base, Append(engine.log, AtIndex(p, i)))
       IN /\ ~ref.fatal
          /\ engine' = [engine EXCEPT
                          !.snap = [Index |-> i, Data |-> registrySave(ref.store),
                                    Nodes |-> ref.nodes],
                          !.log = <<>>, !.offset = i, !.base = ref, !.commit = i,
                          !.stable = i, !.nodes = ref.nodes]
  /\ UNCHANGED <<gen, callers, stoppers, reqs, chans, done, halted, loop, gor, store,
                 storage, raftStorage, ghost>>
  /\ UNCHANGED regm
  /\ UNCHANGED sync

Engine_snapshot == EngineSnapshot(RemoteEntries)
\* The snapshot covers a conf change.
Engine_snapshotConf == EngineSnapshot(RemoteConfChanges)

\* ------------------------------------------------------------ another run
\* The process ends, at any moment, and NewNode is called again on the same
\* data directory: the Store is restored from the newest snapshot, the WAL is
\* read from the entry after it, the engine is restarted on both and the
\* generator is seeded with lastIndex + 2*snapCount.  The cluster keeps its
\* log.  ents[len(ents)-1] panics on a WAL that holds no entry.
NewNode_restart ==
  /\ loop.variant = "new" /\ ghost.runs < MaxRuns
  /\ LET snapshot == storage.snap
         ents == SelectSeq(storage.wal, LAMBDA x : x.Index > snapshot.Index)
         lastIndex == ents[Len(ents)].Index
     IN IF ents = <<>>
          THEN /\ halted' = TRUE
               /\ UNCHANGED <<gen, store, storage, raftStorage, engine, loop>>
          ELSE /\ halted' = FALSE
               /\ gen' = lastIndex + 2 * SnapCount
               /\ store' = IF IsEmptySnap(snapshot) THEN newRegistry
                           ELSE registryRestore(snapshot.Data)
               /\ storage' = [storage EXCEPT !.closed = FALSE]
               /\ raftStorage' = [snap |-> snapshot, ents |-> ents]
               /\ engine' = [engine EXCEPT
                               !.stable = lastIndex, !.applied = snapshot.Index,
                               !.nodes = snapshot.Nodes, !.stopped = FALSE,
                               !.snap = EmptySnap,
                               !.given = [stable |-> 0, applied |-> 0, snap |-> 0]]
               /\ loop' = [loop EXCEPT !.pc = "select", !.x = 0, !.ready = TRUE,
                                       !.snapi = snapshot.Index,
                                       !.appliedi = snapshot.Index,
                                       !.confState = snapshot.Nodes]
  /\ callers' = [c \in Callers |-> IdleCaller]
  /\ stoppers' = [s \in Stoppers |-> "idle"]
  /\ reqs' = EmptyMap
  /\ chans' = [c \in Callers |-> <<>>]
  /\ done' = FALSE
  /\ gor' = EmptyMap
  /\ ghost' = [ghost EXCEPT !.runs = @ + 1,
                            !.delivered = [c \in Callers |-> 0],
                            !.answered = [c \in Callers |-> 0],
                            !.lost = [c \in Callers |-> FALSE],
                            !.processed = [c \in Callers |-> FALSE],
                            !.late = [c \in Callers |-> FALSE],
                            !.overlap = {},
                            !.applied = <<[i |-> storage.snap.Index, how |-> "start"]>>]
  /\ UNCHANGED regm
  /\ UNCHANGED sync

\* ------------------------------------------- the registry, called directly
\* The registry under the requests and conf changes a Node hands it one after
\* the other, and under the reads of the hive.
MaxBeeID == 2
MaxHiveID == 3
Apps == {"x", "y"}
\* The cells a request names: those of app "x", and one of app "y".
CellLists(app) ==
  IF app = "x" THEN {<<"k1">>, <<"k2">>, <<"k1", "k2">>, <<"k2", "k1">>}
               ELSE {<<"k1">>}
\* A colony of one bee, for each bee, and the colony of bee 1 followed by bee 2.
Colonies ==
  {[Leader |-> l, Followers |-> <<>>] : l \in 1..MaxBeeID}
    \cup {[Leader |-> 1, Followers |-> <<2>>]}
BeeInfos ==
  [ID : 1..MaxBeeID, Hive : {SelfID}, App : {"x"},
   Colony : Colonies \cup {NilColony}, Detached : {FALSE}]
RegistryInputs ==
  {noOp, newBeeIDReq, NilData}
    \cup {newHiveIDReq(a) : a \in {"", "a", "b"}}
    \cup {[t |-> "addBee", Info |-> i] : i \in BeeInfos}
    \cup {delBeeReq(id) : id \in 1..MaxBeeID}
    \cup {moveBeeReq(1, SelfID, SelfID), moveBeeReq(1, PeerID, SelfID)}
    \cup {updateColonyReq(o, n) : o \in Colonies, n \in Colonies}
    \cup UNION {{lockMappedCellReq(c, a, ks) :
                   c \in Colonies \cup {NilColony}, ks \in CellLists(a)} : a \in Apps}
    \cup {transferCellsReq(f, t) : f \in Colonies, t \in Colonies}
RegistryConfChanges ==
  {[cc |-> [Type |-> ty, NodeID |-> id], n |-> [ID |-> id, Addr |-> a]] :
     ty \in {"AddNode", "RemoveNode"}, id \in {SelfID}, a \in {"", "a"}}

\* The ids the registry has replied with, in the order of the calls, and
\* whether a lock has answered with a colony other than its caller's.
Called(req, o) ==
  [ghost EXCEPT
     !.replied = IF req.t \in {"newHiveID", "newBeeID"} /\ ~o.fatal
                   THEN [@ EXCEPT ![req.t] = Append(@, o.reply[1])] ELSE @,
     !.adopted = @ \/ (/\ req.t = "lockMappedCell" /\ ~o.fatal /\ o.err = NoErr
                       /\ o.reply # req.Colony)]

\* registry.Apply(req)
Registry_Apply ==
  /\ ~halted
  /\ \E req \in RegistryInputs :
       /\ req.t = "newBeeID" =>
            store.BeeID < MaxBeeID /\ Len(ghost.replied.newBeeID) < MaxBeeID
       /\ req.t = "newHiveID" =>
            store.HiveID < MaxHiveID /\ Len(ghost.replied.newHiveID) < MaxHiveID
       /\ LET o == Apply(store, req)
          IN /\ store' = o.r
             /\ halted' = o.fatal
             /\ ghost' = Called(req, o)
  /\ UNCHANGED <<gen, callers, stoppers, reqs, chans, done, loop, gor, storage,
                 raftStorage, engine>>
  /\ UNCHANGED regm
  /\ UNCHANGED sync

\* registry.ApplyConfChange(cc, n)
Registry_ApplyConfChange ==
  /\ ~halted
  /\ \E x \in RegistryConfChanges :
       LET o == registryApplyConfChange(store, x.cc, x.n)
       IN /\ store' = o.r
          /\ halted' = o.fatal
  /\ UNCHANGED <<gen, callers, stoppers, reqs, chans, done, loop, gor, storage,
                 raftStorage, engine, ghost>>
  /\ UNCHANGED regm
  /\ UNCHANGED sync

\* registry.beeForCells(app, cells)
Registry_beeForCells ==
  /\ ~halted
  /\ \E app \in Apps :
       \E cells \in CellLists(app) :
         LET o == beeForCells(store, app, cells)
         IN halted' = o.fatal
  /\ UNCHANGED <<gen, callers, stoppers, reqs, chans, done, loop, gor, store,
                 storage, raftStorage, engine, ghost>>
  /\ UNCHANGED regm
  /\ UNCHANGED sync

\* ---------------------------------------- the registry under its mutex
\* The node's apply goroutine calls Apply and ApplyConfChange one after the
\* other while other goroutines of the hive call the query methods.
MutexInputs == {newBeeIDReq, newHiveIDReq("a"), newHiveIDReq("b")}
RAt(t, pc) == regm.at[t] = pc

\* Apply: r.m.Lock()
Apply_Lock ==
  /\ ~halted /\ RAt("apply", "idle")
  /\ regm.w = "none" /\ regm.r = {}
  /\ regm' = [regm EXCEPT !.w = "apply", !.at["apply"] = "Apply"]
  /\ UNCHANGED <<gen, callers, stoppers, reqs, chans, done, halted, loop, gor, store,
                 storage, raftStorage, engine, ghost>>
  /\ UNCHANGED sync

\* Apply: the switch over the request, with the writes of its method.
Apply_switch ==
  /\ ~halted /\ RAt("apply", "Apply")
  /\ \E req \in MutexInputs :
       /\ req.t = "newBeeID" => store.BeeID < MaxBeeID
       /\ req.t = "newHiveID" => store.HiveID < MaxHiveID
       /\ LET o == Apply(store, req)
          IN /\ store' = o.r
             /\ halted' = o.fatal
  /\ regm' = [regm EXCEPT !.at["apply"] = "Unlock"]
  /\ UNCHANGED <<gen, callers, stoppers, reqs, chans, done, loop, gor, storage,
                 raftStorage, engine, ghost>>
  /\ UNCHANGED sync

\* Apply: defer r.m.Unlock()
Apply_Unlock ==
  /\ ~halted /\ RAt("apply", "Unlock")
  /\ regm' = [regm EXCEPT !.w = "none", !.at["apply"] = "idle"]
  /\ UNCHANGED <<gen, callers, stoppers, reqs, chans, done, halted, loop, gor, store,
                 storage, raftStorage, engine, ghost>>
  /\ UNCHANGED sync

\* ApplyConfChange is entered: it takes no lock.
ApplyConfChange_call ==
  /\ ~halted /\ RAt("apply", "idle")
  /\ regm' = [regm EXCEPT !.at["apply"] = "ApplyConfChange"]
  /\ UNCHANGED <<gen, callers, stoppers, reqs, chans, done, halted, loop, gor, store,
                 storage, raftStorage, engine, ghost>>
  /\ UNCHANGED sync

\* ApplyConfChange: the switch over cc.Type, with the writes of addHive and
\* delHive.  A write to r.Hives while another goroutine reads the map is a
\* data race: the runtime may end the process or let both go on.
ApplyConfChange_switch ==
  /\ ~halted /\ RAt("apply", "ApplyConfChange")
  /\ \E x \in RegistryConfChanges :
       LET o == registryApplyConfChange(store, x.cc, x.n)
       IN /\ store' = o.r
          /\ halted' \in {o.fatal} \cup
                          (IF \E t \in RegistryReaders : RAt(t, "read") THEN {TRUE} ELSE {})
  /\ regm' = [regm EXCEPT !.at["apply"] = "idle"]
  /\ UNCHANGED <<gen, callers, stoppers, reqs, chans, done, loop, gor, storage,
                 raftStorage, engine, ghost>>
  /\ UNCHANGED sync

\* A query method (hives, bees): r.m.RLock()
Query_RLock(t) ==
  /\ ~halted /\ RAt(t, "idle")
  /\ regm.w = "none"
  /\ regm' = [regm EXCEPT !.r = @ \cup {t}, !.at[t] = "read"]
  /\ UNCHANGED <<gen, callers, stoppers, reqs, chans, done, halted, loop, gor, store,
                 storage, raftStorage, engine, ghost>>
  /\ UNCHANGED sync

\* The loop of the query over the map.
Query_read(t) ==
  /\ ~halted /\ RAt(t, "read")
  /\ regm' = [regm EXCEPT !.at[t] = "RUnlock"]
  /\ UNCHANGED <<gen, callers, stoppers, reqs, chans, done, halted, loop, gor, store,
                 storage, raftStorage, engine, ghost>>
  /\ UNCHANGED sync

\* r.m.RUnlock()
Query_RUnlock(t) ==
  /\ ~halted /\ RAt(t, "RUnlock")
  /\ regm' = [regm EXCEPT !.r = @ \ {t}, !.at[t] = "idle"]
  /\ UNCHANGED <<gen, callers, stoppers, reqs, chans, done, halted, loop, gor, store,
                 storage, raftStorage, engine, ghost>>
  /\ UNCHANGED sync

\* ----------------------------------------------------- the Sync handler
SAt(t, pc) == sync.at[t] = pc
ErrSyncStopped == "sync: stopped"
SyncResponse(id) == [ID |-> id, Data |-> "res", Err |-> NoErr]

\* Where a thread goes on when deque returns: Rcv returns the error or sends
\* the response; Process returns ctx.Err() either way.
AfterDeque(t, ok) ==
  IF t = "rcv" THEN (IF ok THEN "send" ELSE "idle") ELSE "returned"

\* Process: ch := make(chan response, 1); h.reqch <- requestAndChan{...}
Sync_Process_call(p) ==
  /\ ~halted /\ SAt(p, "idle")
  /\ sync' = [sync EXCEPT !.reqch = Append(@, p), !.at[p] = "select",
                          !.arg[p] = p]
  /\ UNCHANGED <<gen, callers, stoppers, reqs, chans, done, halted, loop, gor, store,
                 storage, raftStorage, engine, regm, ghost>>

\* Process: case r := <-ch
Sync_Process_recv(p) ==
  /\ ~halted /\ SAt(p, "select")
  /\ sync.ch[p] # <<>>
  /\ sync' = [sync EXCEPT !.ch[p] = Tail(@), !.at[p] = "returned"]
  /\ UNCHANGED <<gen, callers, stoppers, reqs, chans, done, halted, loop, gor, store,
                 storage, raftStorage, engine, regm, ghost>>

\* Process: case <-ctx.Done(): h.deque(id)
Sync_Process_ctxDone(p) ==
  /\ ~halted /\ SAt(p, "select")
  /\ sync' = [sync EXCEPT !.at[p] = "deque"]
  /\ UNCHANGED <<gen, callers, stoppers, reqs, chans, done, halted, loop, gor, store,
                 storage, raftStorage, engine, regm, ghost>>

\* Start: case rnc := <-h.reqch
Sync_Start_req ==
  /\ ~halted /\ SAt("start", "select")
  /\ sync.reqch # <<>>
  /\ sync' = [sync EXCEPT !.reqch = Tail(@), !.arg["start"] = Head(sync.reqch),
                          !.at["start"] = "enque"]
  /\ UNCHANGED <<gen, callers, stoppers, reqs, chans, done, halted, loop, gor, store,
                 storage, raftStorage, engine, regm, ghost>>

\* enque: h.m.Lock()
Sync_enque_Lock ==
  /\ ~halted /\ SAt("start", "enque")
  /\ sync.m = "none"
  /\ sync' = [sync EXCEPT !.m = "start", !.at["start"] = "enque_put"]
  /\ UNCHANGED <<gen, callers, stoppers, reqs, chans, done, halted, loop, gor, store,
                 storage, raftStorage, engine, regm, ghost>>

\* enque: h.reqs[id] = ch; h.m.Unlock()
Sync_enque_Unlock ==
  /\ ~halted /\ SAt("start", "enque_put")
  /\ sync' = [sync EXCEPT !.reqs = @ \cup {sync.arg["start"]}, !.m = "none",
                          !.at["start"] = "emit"]
  /\ UNCHANGED <<gen, callers, stoppers, reqs, chans, done, halted, loop, gor, store,
                 storage, raftStorage, engine, regm, ghost>>

\* Start: ctx.Emit(rnc.req)
Sync_Start_emit ==
  /\ ~halted /\ SAt("start", "emit")
  /\ sync' = [sync EXCEPT !.emitted = @ \cup {sync.arg["start"]},
                          !.at["start"] = "select"]
  /\ UNCHANGED <<gen, callers, stoppers, reqs, chans, done, halted, loop, gor, store,
                 storage, raftStorage, engine, regm, ghost>>

\* Stop: ack := make(chan struct{}); h.done <- ack
Sync_Stop_call ==
  /\ ~halted /\ SAt("stop", "idle")
  /\ sync' = [sync EXCEPT !.at["stop"] = "send"]
  /\ UNCHANGED <<gen, callers, stoppers, reqs, chans, done, halted, loop, gor, store,
                 storage, raftStorage, engine, regm, ghost>>

\* Stop's h.done <- ack meets Start's case ch := <-h.done
Sync_Start_done ==
  /\ ~halted /\ SAt("start", "select") /\ SAt("stop", "send")
  /\ sync' = [sync EXCEPT !.at["start"] = "drain", !.at["stop"] = "wait"]
  /\ UNCHANGED <<gen, callers, stoppers, reqs, chans, done, halted, loop, gor, store,
                 storage, raftStorage, engine, regm, ghost>>

\* drain: h.m.Lock()
Sync_drain_Lock ==
  /\ ~halted /\ SAt("start", "drain")
  /\ sync.m = "none"
  /\ sync' = [sync EXCEPT !.m = "start", !.at["start"] = "drain_range"]
  /\ UNCHANGED <<gen, callers, stoppers, reqs, chans, done, halted, loop, gor, store,
                 storage, raftStorage, engine, regm, ghost>>

\* drain: for id, ch := range h.reqs { ch <- response{ID: id, Err:
\* ErrSyncStopped}; delete(h.reqs, id) }.  The send waits while the slot of
\* the channel is taken.
Sync_drain_range(id) ==
  /\ ~halted /\ SAt("start", "drain_range")
  /\ id \in sync.reqs /\ sync.ch[id] = <<>>
  /\ sync' = [sync EXCEPT
                !.ch[id] = Append(@, [ID |-> id, Data |-> Nil, Err |-> ErrSyncStopped]),
                !.sent[id] = @ + 1,
                !.took[id] = @ \cup {"start"},
                !.reqs = @ \ {id}]
  /\ UNCHANGED <<gen, callers, stoppers, reqs, chans, done, halted, loop, gor, store,
                 storage, raftStorage, engine, regm, ghost>>

\* drain: h.m.Unlock() when the range is over
Sync_drain_Unlock ==
  /\ ~halted /\ SAt("start", "drain_range")
  /\ sync.reqs = {}
  /\ sync' = [sync EXCEPT !.m = "none", !.at["start"] = "ack"]
  /\ UNCHANGED <<gen, callers, stoppers, reqs, chans, done, halted, loop, gor, store,
                 storage, raftStorage, engine, regm, ghost>>

\* Start: ch <- struct{}{} meets Stop's <-ack; Start returns
Sync_Start_ack ==
  /\ ~halted /\ SAt("start", "ack") /\ SAt("stop", "wait")
  /\ sync' = [sync EXCEPT !.at["start"] = "stopped", !.at["stop"] = "returned"]
  /\ UNCHANGED <<gen, callers, stoppers, reqs, chans, done, halted, loop, gor, store,
                 storage, raftStorage, engine, regm, ghost>>

\* Rcv: the response to an emitted request arrives: h.deque(res.ID)
Sync_Rcv_call(id) ==
  /\ ~halted /\ SAt("rcv", "idle")
  /\ id \in sync.emitted
  /\ sync' = [sync EXCEPT !.emitted = @ \ {id}, !.arg["rcv"] = id,
                          !.at["rcv"] = "deque"]
  /\ UNCHANGED <<gen, callers, stoppers, reqs, chans, done, halted, loop, gor, store,
                 storage, raftStorage, engine, regm, ghost>>

\* Rcv: ch <- res, which waits while the slot of the channel is taken
Sync_Rcv_send ==
  /\ ~halted /\ SAt("rcv", "send")
  /\ sync.ch[sync.arg["rcv"]] = <<>>
  /\ sync' = [sync EXCEPT !.ch[sync.arg["rcv"]] = Append(@, SyncResponse(sync.arg["rcv"])),
                          !.sent[sync.arg["rcv"]] = @ + 1,
                          !.at["rcv"] = "idle"]
  /\ UNCHANGED <<gen, callers, stoppers, reqs, chans, done, halted, loop, gor, store,
                 storage, raftStorage, engine, regm, ghost>>

\* deque: h.m.Lock()
Sync_deque_Lock(t) ==
  /\ ~halted /\ SAt(t, "deque")
  /\ sync.m = "none"
  /\ sync' = [sync EXCEPT !.m = t, !.at[t] = "deque_read"]
  /\ UNCHANGED <<gen, callers, stoppers, reqs, chans, done, halted, loop, gor, store,
                 storage, raftStorage, engine, regm, ghost>>

\* deque: ch, ok := h.reqs[id]; h.m.Unlock(); if !ok { return nil,
\* ErrSyncNoSuchRequest }
dequeRead(t) ==
  LET id == sync.arg[t]
      ok == id \in sync.reqs
  IN [sync EXCEPT !.m = "none",
                  !.took[id] = IF ok THEN @ \cup {t} ELSE @,
                  !.at[t] = IF ok THEN "deque_delete" ELSE AfterDeque(t, FALSE)]

Sync_deque_Unlock(t) ==
  /\ ~halted /\ SAt(t, "deque_read")
  /\ sync' = dequeRead(t)
  /\ UNCHANGED <<gen, callers, stoppers, reqs, chans, done, halted, loop, gor, store,
                 storage, raftStorage, engine, regm, ghost>>

\* deque: delete(h.reqs, id); return ch, nil.  The mutex is not held here: a
\* write to the map while another goroutine is inside one of the locked
\* sections on it is a data race, which the runtime may end the process for
\* or let pass.
Sync_deque_delete(t) ==
  /\ ~halted /\ SAt(t, "deque_delete")
  /\ sync' = [sync EXCEPT !.reqs = @ \ {sync.arg[t]},
                          !.bare = IF sync.m = t THEN @ ELSE @ \cup {sync.arg[t]},
                          !.at[t] = AfterDeque(t, TRUE)]
  /\ halted' \in {FALSE} \cup {TRUE : x \in {sync.m} \ {"none", t}}
  /\ UNCHANGED <<gen, callers, stoppers, reqs, chans, done, loop, gor, store,
                 storage, raftStorage, engine, regm, ghost>>


\* ------------------------------------- the older Node (src/raft/node.go)
DoInputs == {newBeeIDReq, delBeeReq(1)}

\* Do: build and encode the request.
Do_start(c) ==
  /\ MayStart(c) /\ loop.variant = "old"
  /\ \E d \in DoInputs :
       callers' = [callers EXCEPT ![c] =
                     [IdleCaller EXCEPT !.step = 1, !.kind = "Do", !.data = d,
                                        !.id = genID]]
  /\ gen' = gen + 1
  /\ UNCHANGED <<stoppers, reqs, chans, done, halted, loop, gor, store, storage,
                 raftStorage, engine, ghost>>
  /\ UNCHANGED regm
  /\ UNCHANGED sync

Do_wait(c) == CallWait(c, "Do")
Do_propose(c) == CallPropose(c, "Do")
Do_reply(c) == CallReply(c, "Do")
Do_nodeDone(c) == CallNodeDone(c, "Do")

\* The Response Do pushes through line.call when its context is done.
DoFake(id) == [ID |-> id, Data |-> Nil, Err |-> NoErr]

\* case <-ctx.Done(): n.line.call(Response{ID: r.ID}); return nil, ctx.Err()
Do_ctxDone(c) ==
  /\ ~halted /\ At(c, "Do", "select")
  /\ reqs' = lineCallReqs(reqs, DoFake(callers[c].id))
  /\ chans' = lineCallChans(reqs, chans, DoFake(callers[c].id))
  /\ callers' = [callers EXCEPT ![c].step = Returned,
                                ![c].out = [via |-> "ctx", Data |-> Nil,
                                            Err |-> "Cancelled"]]
  /\ UNCHANGED <<gen, stoppers, done, halted, loop, gor, store, storage,
                 raftStorage, engine, ghost>>
  /\ UNCHANGED regm
  /\ UNCHANGED sync

\* Stop: close(n.done) (the first call).
Old_stop ==
  /\ ~halted /\ loop.variant = "old" /\ ~done
  /\ done' = TRUE
  /\ UNCHANGED <<gen, callers, stoppers, reqs, chans, halted, loop, gor, store,
                 storage, raftStorage, engine, ghost>>
  /\ UNCHANGED regm
  /\ UNCHANGED sync

\* case rd := <-n.node.Ready(): n.wal.Save; n.snap.SaveSnap; n.send.  This
\* engine has no Advance: a Ready handed out is done with.
Old_ready ==
  /\ ~halted /\ loop.variant = "old" /\ loop.pc = "select"
  /\ ContainsUpdates(Ready(engine))
  /\ LET rd == Ready(engine) IN
       /\ storage' = [storage EXCEPT
                        !.wal = @ \o rd.Entries, !.hard = rd.HardState,
                        !.snap = IF IsEmptySnap(rd.Snapshot) THEN @ ELSE rd.Snapshot]
       /\ ghost' = [ghost EXCEPT !.sent = @ \cup rd.Messages]
       /\ engine' = [engine EXCEPT
                       !.stable = LastOf(rd.Entries, @),
                       !.applied = LastOf(rd.CommittedEntries, @),
                       !.snap = EmptySnap]
       /\ loop' = [loop EXCEPT !.pc = "apply", !.rd = rd,
                               !.todo = rd.CommittedEntries]
  /\ UNCHANGED <<gen, callers, stoppers, reqs, chans, done, halted, gor, store,
                 raftStorage>>
  /\ UNCHANGED regm
  /\ UNCHANGED sync

\* The request an entry carries: the data of a normal entry, the context of a
\* conf change.
oldRequest(e) ==
  IF e.Type = "EntryNormal" THEN DecodeRequest(e.Data)
                            ELSE DecodeRequest(e.Data.Context)

\* for _, e := range rd.CommittedEntries {...}: one iteration.
Old_apply ==
  /\ ~halted /\ loop.variant = "old" /\ loop.pc = "apply"
  /\ loop.todo # <<>>
  /\ LET e == Head(loop.todo)
         rq == oldRequest(e)
         nodes1 == IF e.Type = "EntryNormal" THEN engine.nodes
                   ELSE engineApplyConfChange(engine.nodes, e.Data)
     IN IF ~rq.ok
          THEN /\ halted' = TRUE
               /\ UNCHANGED <<reqs, chans, loop, store, engine, ghost>>
          ELSE LET o == Apply(store, rq.v.Data)
                   res == [ID |-> rq.v.ID, Data |-> o.reply, Err |-> NoErr]
                   f == Eff(o.r, loop.confState, nodes1, TRUE, res, rq.v.ID, TRUE,
                            [Req |-> rq.v.Data, Data |-> o.reply, Err |-> NoErr],
                            o.fatal)
               IN /\ halted' = o.fatal
                  /\ store' = o.r
                  /\ engine' = [engine EXCEPT !.nodes = nodes1]
                  /\ reqs' = lineCallReqs(reqs, res)
                  /\ chans' = lineCallChans(reqs, chans, res)
                  /\ ghost' = GhostApply(f)
                  /\ loop' = [loop EXCEPT !.appliedi = e.Index, !.todo = Tail(@)]
  /\ UNCHANGED <<gen, callers, stoppers, done, gor, storage, raftStorage>>
  /\ UNCHANGED regm
  /\ UNCHANGED sync

\* The rest of the case: snapi and appliedi follow the snapshot of the Ready,
\* and a snapshot is cut when it is due.
Old_finish ==
  /\ ~halted /\ loop.variant = "old" /\ loop.pc = "apply"
  /\ loop.todo = <<>>
  /\ LET snap == loop.rd.Snapshot
         snapi1 == Max(loop.snapi, snap.Index)
         restore == snap.Index > loop.appliedi
         appliedi1 == IF restore THEN snap.Index ELSE loop.appliedi
         st1 == IF restore THEN registryRestore(snap.Data) ELSE store
         due == snapshotDue(appliedi1, snapi1)
     IN /\ store' = st1
        /\ storage' = IF due THEN [storage EXCEPT !.segs = @ + 1] ELSE storage
        /\ loop' = [loop EXCEPT !.pc = "select", !.rd = NoReady,
                                !.snapi = IF due THEN appliedi1 ELSE snapi1,
                                !.appliedi = appliedi1]
  /\ UNCHANGED <<gen, callers, stoppers, reqs, chans, done, halted, gor,
                 raftStorage, engine, ghost>>
  /\ UNCHANGED regm
  /\ UNCHANGED sync

\* ------------------------------------------------------------------- Next
\* The callers of the node.
NextCallers ==
  \E c \in Callers :
    \/ Process_start(c) \/ Process_wait(c) \/ Process_propose(c)
    \/ Process_reply(c) \/ Process_ctxDone(c)
    \/ ProcessConfChange_start(c) \/ ProcessConfChange_wait(c)
    \/ ProcessConfChange_propose(c) \/ ProcessConfChange_reply(c)
    \/ ProcessConfChange_ctxDone(c)

\* The loop takes a Ready and its goroutine works through it.
NextBatch ==
  \/ Loop_ready
  \/ \E g \in 1..MaxGoroutines :
       \/ Loop_adv(g) \/ Ready_save(g) \/ Ready_send(g)
       \/ Ready_apply(g) \/ Ready_snapshot(g)

\* What the goroutine does with the snapshot of a Ready that carries one.
NextInstall == \E g \in 1..MaxGoroutines : Ready_savesnap(g) \/ Ready_restore(g)

\* The loop is told to stop and runs what it deferred.
NextExit ==
  \/ Exit_nodeStop \/ Exit_storageClose \/ Exit_closeDone
  \/ \E g \in 1..MaxGoroutines : Ready_done(g)

\* The Sync handler: Process callers, the Start loop, Rcv and Stop.
NextSync ==
  \/ \E p \in SyncCallers :
       \/ Sync_Process_call(p) \/ Sync_Process_recv(p) \/ Sync_Process_ctxDone(p)
       \/ Sync_drain_range(p) \/ Sync_Rcv_call(p)
  \/ Sync_Start_req \/ Sync_enque_Lock \/ Sync_enque_Unlock \/ Sync_Start_emit
  \/ Sync_Stop_call \/ Sync_Start_done \/ Sync_drain_Lock \/ Sync_drain_Unlock
  \/ Sync_Start_ack \/ Sync_Rcv_send
  \/ \E t \in SyncCallers \cup {"rcv"} :
       Sync_deque_Lock(t) \/ Sync_deque_Unlock(t) \/ Sync_deque_delete(t)
SpecSync == Init /\ [][NextSync]_vars

\* The registry's methods, statement by statement.
NextMutex ==
  \/ Apply_Lock \/ Apply_switch \/ Apply_Unlock
  \/ ApplyConfChange_call \/ ApplyConfChange_switch
  \/ \E t \in RegistryReaders : Query_RLock(t) \/ Query_read(t) \/ Query_RUnlock(t)

\* The whole node.
Next ==
  \/ NextCallers
  \/ \E c \in Callers : Process_nodeDone(c) \/ ProcessConfChange_nodeDone(c)
  \/ \E s \in Stoppers : Stop_call(s) \/ Loop_stop(s) \/ Stop_seeDone(s) \/ Stop_return(s)
  \/ Loop_tick
  \/ NextBatch
  \/ NextInstall
  \/ NextExit
  \/ Engine_remote \/ Engine_empty \/ Engine_commit \/ Engine_snapshot
  \/ Engine_confChange \/ Engine_snapshotConf
  \/ NewNode_restart
  \/ Registry_Apply \/ Registry_ApplyConfChange \/ Registry_beeForCells
  \/ NextMutex
  \/ NextSync

Spec == Init /\ [][Next]_vars

\* The parts of the node that are explored exhaustively.
\* Callers among the requests of another member; the node keeps running.
NextCall == NextCallers \/ NextBatch \/ Engine_remote \/ Engine_commit
SpecCall == Init /\ [][NextCall]_vars

\* Callers of a node that is stopped.
NextStop ==
  \/ NextCallers
  \/ \E c \in Callers : Process_nodeDone(c) \/ ProcessConfChange_nodeDone(c)
  \/ Stop_call(1) \/ Loop_stop(1)
  \/ NextBatch
  \/ NextExit
  \/ Engine_commit
SpecStop == Init /\ [][NextStop]_vars

\* The loop, its goroutine and Stop, under every kind of Ready.
NextLoop ==
  \/ \E s \in Stoppers : Stop_call(s) \/ Loop_stop(s) \/ Stop_seeDone(s) \/ Stop_return(s)
  \/ Loop_tick
  \/ NextBatch
  \/ NextInstall
  \/ NextExit
  \/ Engine_remote \/ Engine_empty \/ Engine_commit \/ Engine_snapshot
SpecLoop == Init /\ [][NextLoop]_vars

\* The Go scheduler runs every goroutine that can run, and a select whose
\* stop case stays ready takes it in the end.
LoopFairness ==
  /\ WF_vars(\E s \in Stoppers : Loop_stop(s))
  /\ WF_vars(Exit_nodeStop \/ Exit_storageClose \/ Exit_closeDone)
  /\ \A s \in Stoppers : WF_vars(Stop_seeDone(s)) /\ WF_vars(Stop_return(s))
SpecLoopFair == SpecLoop /\ LoopFairness

\* Process calls on a node that is restarted.
NextRestart ==
  \/ \E c \in Callers :
       \/ Process_start(c) \/ Process_wait(c) \/ Process_propose(c)
       \/ Process_reply(c)
  \/ NextBatch
  \/ Engine_commit
  \/ NewNode_restart
SpecRestart == Init /\ [][NextRestart]_vars

\* The loop under the conf changes of the cluster.
NextConf ==
  \/ NextBatch
  \/ NextInstall
  \/ Engine_commit \/ Engine_confChange \/ Engine_snapshotConf
SpecConf == Init /\ [][NextConf]_vars

\* The registry between its writer and its readers.
SpecMutex == Init /\ [][NextMutex]_vars

\* The registry alone.
NextRegistry == Registry_Apply \/ Registry_ApplyConfChange \/ Registry_beeForCells
SpecRegistry == Init /\ [][NextRegistry]_vars

\* Process calls that are left to finish, on a cluster of this node alone.
NextSingle ==
  \/ \E c \in Callers :
       \/ Process_start(c) \/ Process_wait(c) \/ Process_propose(c)
       \/ Process_reply(c)
  \/ NextBatch
  \/ Engine_commit
SpecSingle == Init /\ [][NextSingle]_vars

\* The older Node.
NextDo ==
  \/ \E c \in Callers :
       \/ Do_start(c) \/ Do_wait(c) \/ Do_propose(c)
       \/ Do_reply(c) \/ Do_ctxDone(c) \/ Do_nodeDone(c)
  \/ Old_stop \/ Old_ready \/ Old_apply \/ Old_finish
  \/ Engine_commit

\* Cancellation in both Nodes.
SpecCancel == (Init \/ InitDo) /\ [][NextCall \/ NextDo]_vars

\* ------------------------------------------------------------- properties
HasReturned(c) == callers[c].step = Returned
Via(c, how) == HasReturned(c) /\ callers[c].out.via = how

\* The RequestID an entry of the log carries, NoID if it carries none.
EntryRequestID(e) ==
  LET b == IF e.Type = "EntryNormal" THEN e.Data ELSE e.Data.Context
  IN IF b.gob = "Request" THEN b.v.ID ELSE NoID
Proposed(c) ==
  \E i \in DOMAIN engine.log : EntryRequestID(engine.log[i]) = callers[c].id
Waited(c) ==
  \E i \in DOMAIN OrderOf(callers[c].kind) :
    OrderOf(callers[c].kind)[i] = "wait" /\ callers[c].step > i

\* C1: a Process call that has returned through its reply channel returned
\* exactly the (reply, error) pair the Store produced when the entry carrying
\* its own RequestID was applied; any other return is the context error or
\* ErrStopped, with no reply.
C1_OwnReply ==
  \A c \in Callers :
    HasReturned(c) /\ callers[c].kind = "Process" =>
      \/ /\ callers[c].out.via = "reply"
         /\ callers[c].id \in DOMAIN ghost.applyOut
         /\ callers[c].data = ghost.applyOut[callers[c].id].Req
         /\ callers[c].out.Data = ghost.applyOut[callers[c].id].Data
         /\ callers[c].out.Err = ghost.applyOut[callers[c].id].Err
      \/ /\ callers[c].out.via = "ctx"
         /\ callers[c].out.Data = Nil /\ callers[c].out.Err = "Cancelled"
      \/ /\ callers[c].out.via = "done"
         /\ callers[c].out.Data = Nil /\ callers[c].out.Err = "ErrStopped"

\* C2: rendezvous law: every wait whose request was applied while the slot
\* was registered (not cancelled, no Stop) has been answered by exactly one
\* call, which delivered exactly one value on its channel.
C2_ExactlyOne ==
  \A c \in Callers :
    ghost.processed[c] => ghost.answered[c] = 1 /\ ghost.delivered[c] = 1

\* C3: a caller whose request was committed and processed by the apply step
\* while it was waiting, and that has not returned yet, has the Response in
\* its channel.
C3_ProcessedIsAnswered ==
  \A c \in Callers :
    ghost.processed[c] /\ ~HasReturned(c) => chans[c] # <<>>

\* C4: a proposal is in the engine's log only if its slot was registered
\* before, and the Response of an applied request misses its slot only if
\* the caller has cancelled.
C4_WaitBeforePropose ==
  \A c \in Callers :
    /\ callers[c].step >= 1 /\ Proposed(c) => Waited(c)
    /\ ghost.lost[c] => Via(c, "ctx")

\* The entry was applied before its caller got to the select: the Response
\* waits in the channel.
C4_Witness ==
  \E c \in Callers :
    /\ ~HasReturned(c) /\ ghost.processed[c]
    /\ chans[c] # <<>> /\ callers[c].id \notin DOMAIN reqs

\* C5: a call that returned because its context was done returned the
\* context error and left no slot behind; from then on nothing is put on its
\* channel, and when its entry is applied afterwards the apply step goes
\* through and the map still has no entry for its ID.  Both Nodes.
C5_StaysCancelled(c) ==
  Via(c, "ctx") =>
    /\ chans'[c] = chans[c]
    /\ ghost'.late[c] /\ ~ghost.late[c] =>
         ~halted' /\ callers[c].id \notin DOMAIN reqs'
C5_CancelDiscards ==
  /\ [](\A c \in Callers :
         Via(c, "ctx") =>
           callers[c].out.Err = "Cancelled" /\ callers[c].id \notin DOMAIN reqs)
  /\ [][\A c \in Callers : C5_StaysCancelled(c)]_vars

\* The entry of a cancelled Process was applied after the call had returned:
\* its Response reached no channel.
C5_Witness ==
  \E c \in Callers :
    /\ callers[c].kind = "Process" /\ Via(c, "ctx")
    /\ ghost.late[c] /\ callers[c].id \in DOMAIN ghost.applyOut
    /\ chans[c] = <<>> /\ ghost.delivered[c] = 0

\* The same in the older Node: only the Response Do pushed itself is in the
\* channel, the one of the entry applied later is not.
C5_WitnessDo ==
  \E c \in Callers :
    /\ callers[c].kind = "Do" /\ Via(c, "ctx")
    /\ ghost.late[c] /\ callers[c].id \in DOMAIN ghost.applyOut
    /\ chans[c] = <<DoFake(callers[c].id)>> /\ ghost.delivered[c] = 0

\* C6: after Process or ProcessConfChange has returned, by any path, the
\* rendezvous map holds no entry for the request's ID.
C6_NoSlotAfterReturn ==
  \A c \in Callers : HasReturned(c) => callers[c].id \notin DOMAIN reqs

\* C7: whenever a call of Stop has returned, the loop has exited, the engine
\* is stopped, storage is closed and done is closed; and every call of Stop,
\* alone or beside another, returns (unless the process has ended).
C7_StopReturns ==
  /\ [](\A s \in Stoppers :
         stoppers[s] = "returned" =>
           loop.pc = "exited" /\ engine.stopped /\ storage.closed /\ done)
  /\ \A s \in Stoppers :
       (stoppers[s] # "idle") ~> (stoppers[s] = "returned" \/ halted)

\* Two calls of Stop have returned.
C7_Witness == \A s \in Stoppers : stoppers[s] = "returned"

\* C8: at most one Ready is being processed, and while it is the loop does
\* not listen on the engine's Ready channel.
C8_OneReady ==
  /\ Cardinality(DOMAIN gor) <= 1
  /\ InFlight => ~loop.ready

\* A Ready is in flight while the engine has more to hand out.
C8_Witness ==
  \E g \in DOMAIN gor :
    /\ ContainsUpdates(Ready(engine)) /\ Ready(engine) # gor[g].rd
    /\ ~loop.ready /\ ~engine.stopped

\* C9 as stated: no tick and no stop is processed while a Ready is in flight.
C9_NoTickNoStopInFlight == ghost.overlap = {}

\* C9 as the loop does it: while a Ready is in flight the loop takes no
\* further Ready; the ticks and the stop it processes meanwhile leave the
\* batch and what the engine handed out as they are.
C9_NoReadyInFlight ==
  [][InFlight =>
       /\ DOMAIN gor' \subseteq DOMAIN gor
       /\ ghost'.overlap # ghost.overlap =>
            gor' = gor /\ engine'.given = engine.given]_vars

\* A tick and the stop signal were both processed while a Ready was in flight.
C9_Witness == ghost.overlap = {"tick", "stop"} /\ InFlight

\* C10: the statements of a batch run in the order savesnap, save, send,
\* restore, apply, snapshot, advance; advance is signalled only after save,
\* apply and snapshot; a message is sent and an entry is applied only after
\* the Save of its batch.
Range(f) == {f[i] : i \in DOMAIN f}
Canonical ==
  <<"savesnap", "save", "send", "restore", "apply", "snapshot", "advance">>
Rank(name) == CHOOSE i \in DOMAIN Canonical : Canonical[i] = name
C10_StrictOrder ==
  /\ \A g \in DOMAIN gor :
       LET r == gor[g] IN
         /\ \A i, j \in DOMAIN r.phases :
              i < j => Rank(r.phases[i]) < Rank(r.phases[j])
         /\ \A i \in DOMAIN r.phases :
              Rank(r.phases[i]) < Rank(ReadyOrder[r.step])
         /\ r.began => "save" \in Range(r.phases)
         /\ GAt(g, "advance") =>
              /\ {"save", "snapshot"} \subseteq Range(r.phases)
              /\ r.rd.CommittedEntries # <<>> => "apply" \in Range(r.phases)
              /\ r.rd.Messages # {} => "send" \in Range(r.phases)
  /\ ghost.sent \subseteq {storage.wal[i].Index : i \in DOMAIN storage.wal}
  /\ loop.appliedi <= Max(LastOf(storage.wal, 0), storage.snap.Index)

\* A batch with a snapshot, entries and committed entries has gone through
\* all six statements and is about to signal advance.
C10_Witness ==
  \E g \in DOMAIN gor :
    /\ GAt(g, "advance")
    /\ gor[g].phases = SubSeq(Canonical, 1, Len(Canonical) - 1)

\* C11: within one run the entries are applied one index after the other,
\* each once: an applied entry has the index after the one applied or
\* restored before it, a restored snapshot lies ahead of it, every applied
\* index is committed, appliedi is the index applied last once a batch is
\* through, and appliedi never decreases.
MidApply == \E g \in DOMAIN gor : gor[g].began /\ gor[g].ents # <<>>
C11_AppliedOnceInOrder ==
  /\ [](LET a == ghost.applied IN
          /\ \A k \in 2..Len(a) :
               /\ a[k].how = "entry" => a[k].i = a[k - 1].i + 1
               /\ a[k].how = "snapshot" => a[k].i > a[k - 1].i
               /\ a[k].i <= engine.commit
          /\ ~halted =>
               IF MidApply THEN loop.appliedi < a[Len(a)].i
                           ELSE loop.appliedi = a[Len(a)].i)
  /\ [][ghost'.runs = ghost.runs => loop'.appliedi >= loop.appliedi]_vars

\* The boot entry was applied, a snapshot was restored over it and the entry
\* after the snapshot was applied.
C11_Witness ==
  LET a == ghost.applied IN
    /\ Len(a) >= 4
    /\ a[2].how = "entry" /\ a[3].how = "snapshot" /\ a[4].how = "entry"

\* The entry this step applies, if it applies one.
AppliesEntry ==
  /\ Len(ghost'.applied) = Len(ghost.applied) + 1
  /\ ghost'.applied[Len(ghost'.applied)].how = "entry"
EntryApplied ==
  LET r == gor[CHOOSE g \in DOMAIN gor : GAt(g, "apply")]
  IN Head(IF r.began THEN r.ents ELSE entsToApply(r.rd.CommittedEntries, loop.appliedi))
\* The members of the cluster before the entry of index i, as the log says.
MembersBefore(i) ==
  Replay(engine.base, SelectSeq(engine.log, LAMBDA x : x.Index < i)).nodes
\* cc is valid against these members.
ValidNow(cc, members) ==
  /\ cc.NodeID # 0
  /\ cc.Type = "AddNode" => cc.NodeID \notin members
  /\ cc.Type = "RemoveNode" => cc.NodeID \in members

\* C12: an applied conf change takes effect iff it is valid against the
\* membership of the moment: then confState becomes the membership after it;
\* otherwise confState and the Store stay as they are and the replica goes
\* on; appliedi passes the entry in both cases.
C12_ValidatedAgainstCurrent ==
  [][AppliesEntry /\ EntryApplied.Type = "EntryConfChange"
       /\ EntryApplied.Index > engine.offset =>
       LET cc == EntryApplied.Data
           members == MembersBefore(EntryApplied.Index)
       IN
         /\ IF ValidNow(cc, members)
              THEN loop'.confState = engineApplyConfChange(members, cc)
              ELSE /\ loop'.confState = loop.confState
                   /\ store' = store
                   /\ ~halted'
         /\ ~MidApply' /\ ~halted' => loop'.appliedi = EntryApplied.Index]_vars

\* The call has taken its RequestID and has not handed its proposal to the
\* engine yet.
NotYetProposed(c) ==
  \E i \in DOMAIN OrderOf(callers[c].kind) :
    OrderOf(callers[c].kind)[i] = "propose" /\ callers[c].step \in 1..i

\* C13: no two requests of this node share a RequestID, in one run or across
\* restarts: two calls hold different IDs, and the ID a call has just taken
\* is carried by no entry of the log.
C13_UniqueRequestIDs ==
  /\ \A c, d \in Callers :
       c # d /\ callers[c].step >= 1 /\ callers[d].step >= 1 =>
         callers[c].id # callers[d].id
  /\ \A c \in Callers : NotYetProposed(c) => ~Proposed(c)

\* The Store after the requests of ents that succeed are applied to st one
\* after the other, directly; with withConf, the conf changes of ents are
\* given to it as well.
RECURSIVE Direct(_, _, _)
Direct(st, ents, withConf) ==
  IF ents = <<>> THEN st
  ELSE LET e == Head(ents)
           o == IF e.Type = "EntryNormal"
                  THEN IF e.Data.gob = "Request" /\ e.Data.v.Data # NilData
                         THEN Apply(st, e.Data.v.Data)
                         ELSE Out(st, Nil, NoErr)
                ELSE IF withConf
                  THEN registryApplyConfChange(st, e.Data, DecodeNodeInfo(e.Data.Context).v)
                  ELSE Out(st, Nil, NoErr)
       IN Direct(IF o.err = NoErr THEN o.r ELSE st, Tail(ents), withConf)
AppliedPrefix ==
  SelectSeq(engine.log, LAMBDA x : x.Index <= ghost.applied[Len(ghost.applied)].i)
Succeeded(c) == Via(c, "reply") /\ callers[c].out.Err = NoErr
IndexOf(c) ==
  CHOOSE i \in 0..MaxIndex + 1 :
    \/ i \in DOMAIN engine.log /\ EntryRequestID(engine.log[i]) = callers[c].id
    \/ i = 0 /\ ~Proposed(c)

\* C14 as stated: the Store is what the successful requests, applied directly
\* to a fresh Store in log order, produce.
C14_EqualsDirectOnFresh == ~halted => store = Direct(newRegistry, AppliedPrefix, FALSE)

\* C14: the Store is what the conf change the node boots with and the
\* successful requests, given directly to a fresh Store in log order,
\* produce; and when a call is submitted after another has returned success,
\* the entry of the earlier one is applied already and the later one has no
\* entry yet, so it is applied on a Store that holds the effects of the first.
C14_EqualsDirectAfterBoot ==
  /\ [](~halted => store = Direct(newRegistry, AppliedPrefix, TRUE))
  /\ [][\A c, d \in Callers :
          Succeeded(c) /\ callers[d].step = 0 /\ callers'[d].step >= 1 =>
            /\ IndexOf(c) \in 1..ghost.applied[Len(ghost.applied)].i
            /\ \A i \in DOMAIN engine.log :
                 EntryRequestID(engine.log[i]) # callers'[d].id]_vars

\* Two calls of newBeeID have returned, with the replies 1 and 2.
C14_Witness ==
  /\ \A c \in Callers : Succeeded(c) /\ callers[c].data = newBeeIDReq
  /\ {callers[c].out.Data : c \in Callers} = {<<1>>, <<2>>}
  /\ store.BeeID = 2

\* C15: after a restart on a data directory that holds a snapshot, NewNode
\* completes and the Store is again what the log prefix up to the index
\* applied or restored last produces, as it was before the shutdown.
C15_RestartReproduces ==
  ghost.runs > 1 /\ ~IsEmptySnap(storage.snap) =>
    /\ ~halted
    /\ store = Replay(engine.base, AppliedPrefix).store

\* C16: the registry of this replica, whether it replayed the entries or
\* installed a snapshot, is the registry the leader holds after the same log
\* prefix.
C16_SameAsLeader ==
  ~halted /\ ghost.applied[Len(ghost.applied)].i >= engine.offset =>
    store = Replay(engine.base, AppliedPrefix).store
\* C17: after every applied entry HiveID and BeeID are not smaller than
\* before; each newHiveID reply and each newBeeID reply is greater than every
\* earlier reply of its kind, the first being 2 and 1 (HiveID starts from 1,
\* BeeID from 0); no two entries of Hives with different ids share an Addr.
Increasing(s, first) ==
  /\ s # <<>> => s[1] = first
  /\ \A i \in DOMAIN s : \A j \in DOMAIN s : i < j => s[i] < s[j]
C17_CountersAndAddrs ==
  /\ [](/\ Increasing(ghost.replied.newHiveID, 2)
        /\ Increasing(ghost.replied.newBeeID, 1)
        /\ store.HiveID >= 1 /\ store.BeeID >= 0
        /\ \A h \in DOMAIN store.Hives : \A k \in DOMAIN store.Hives :
             h # k => store.Hives[h].Addr # store.Hives[k].Addr)
  /\ [][store'.HiveID >= store.HiveID /\ store'.BeeID >= store.BeeID]_vars
\* Both counters have replied twice and two hives with two addresses are kept.
C17_Witness ==
  /\ ghost.replied.newHiveID = <<2, 3>>
  /\ ghost.replied.newBeeID = <<1, 2>>
  /\ Cardinality(DOMAIN store.Hives) = 2
  /\ ~halted
\* C18: after every applied entry, every BeeInfo in Bees whose Colony is
\* non-nil references a Leader that is a key of Bees, and every Follower
\* listed in that Colony is a key of Bees.
C18_ColonyMembersAreBees ==
  \A b \in DOMAIN store.Bees :
    LET c == store.Bees[b].Colony IN
      ~IsNil(c) => /\ c.Leader \in DOMAIN store.Bees
                   /\ Members(c.Followers) \subseteq DOMAIN store.Bees

\* C19: after every applied entry, for every (App, Cell) mapped in the cell
\* store to a colony C, C.Leader is a key of Bees and the App of that bee is
\* App; and the process never ends in beeForCells' check of the bee it
\* looked up for a mapped cell.
C19_MappedCellsHaveLeader ==
  /\ \A key \in DOMAIN store.Store :
       /\ store.Store[key].Leader \in DOMAIN store.Bees
       /\ store.Bees[store.Store[key].Leader].App = key[1]
  /\ \A app \in Apps : \A cells \in CellLists(app) :
       ~beeForCells(store, app, cells).fatal

\* C20: a lockMappedCell request with a non-nil Colony that returns
\* successfully leaves every requested cell mapped to the colony it returns,
\* changes the owner of no cell that was owned, returns the caller's colony
\* when no requested cell was owned and the owning colony otherwise; the same
\* request issued again returns the same colony and leaves the cell store as
\* it is.
LockInputs == {req \in RegistryInputs : req.t = "lockMappedCell"}
Owned(s, l) == {k \in Members(l.Cells) : <<l.App, k>> \in DOMAIN s}
C20_LockAttaches ==
  \A l \in LockInputs :
    LET o == lock(store, l)
        again == lock(o.r, l)
    IN ~IsNil(l.Colony) /\ ~o.fatal /\ o.err = NoErr =>
         /\ \A k \in Members(l.Cells) :
              /\ <<l.App, k>> \in DOMAIN o.r.Store
              /\ Equals(o.r.Store[<<l.App, k>>], o.reply)
         /\ \A key \in DOMAIN store.Store :
              key \in DOMAIN o.r.Store /\ o.r.Store[key] = store.Store[key]
         /\ IF Owned(store.Store, l) = {} THEN o.reply = l.Colony
            ELSE \E k \in Owned(store.Store, l) : o.reply = store.Store[<<l.App, k>>]
         /\ ~again.fatal /\ again.err = NoErr
         /\ again.reply = o.reply /\ again.r.Store = o.r.Store
\* A lock has adopted the colony that owned one of its cells, and both cells
\* of the app are mapped.
C20_Witness ==
  /\ ghost.adopted /\ ~halted
  /\ {<<"x", "k1">>, <<"x", "k2">>} \subseteq DOMAIN store.Store

\* C21: no request a caller can submit halts the replica when it is applied:
\* in every registry state, every request of Process and every conf change of
\* AddNode / RemoveNode is applied without glog.Fatal, and an invalid one
\* comes back as Response.Err.
C21_NoRequestHalts ==
  /\ \A req \in RegistryInputs : ~Apply(store, req).fatal
  /\ \A x \in RegistryConfChanges : ~registryApplyConfChange(store, x.cc, x.n).fatal

\* C22: every registry Apply call that returns a non-nil error leaves HiveID,
\* BeeID, Hives, Bees and the cell store as they were before the call; a
\* second addBee with an existing ID returns DuplicateBee and Bees still
\* holds the original entry for that ID.
C22_ErrorLeavesState ==
  \A req \in RegistryInputs :
    LET o == Apply(store, req) IN
      /\ o.err # NoErr => ~o.fatal /\ o.r = store
      /\ req.t = "addBee" /\ req.Info.ID \in DOMAIN store.Bees =>
           o.err = "ErrDuplicateBee" /\ o.r.Bees = store.Bees
\* Bee 1 is kept in a colony, and an addBee for ID 1 without a colony, a
\* delBee for the missing bee 2 and a lock for the nil colony are refused.
C22_Witness ==
  /\ ~halted
  /\ DOMAIN store.Bees = {1} /\ ~IsNil(store.Bees[1].Colony)
  /\ store.Store # newCellStore
  /\ Apply(store, [t |-> "addBee", Info |-> [store.Bees[1] EXCEPT !.Colony = NilColony]]).err
       = "ErrDuplicateBee"
  /\ Apply(store, delBeeReq(2)).err = "ErrNoSuchBee"
  /\ Apply(store, lockMappedCellReq(NilColony, "x", <<"k1">>)).err = "ErrInvalidParam"

\* C23: at every advance signal snapi <= appliedi <= snapi + snapCount;
\* whenever appliedi - snapi exceeds snapCount after the committed entries of
\* a Ready are applied, a snapshot at appliedi is taken before the advance
\* (Store.Save, compaction of the memory storage, WAL cut, snapshot saved)
\* and snapi becomes appliedi; snapi never exceeds appliedi.
AtStep(name) == \E g \in DOMAIN gor : GAt(g, name)
SnapshotTaken ==
  /\ raftStorage'.snap = [Index |-> loop.appliedi, Data |-> registrySave(store),
                          Nodes |-> loop.confState]
  /\ \A i \in DOMAIN raftStorage'.ents : raftStorage'.ents[i].Index > loop.appliedi
  /\ storage'.segs = storage.segs + 1
  /\ storage'.snap = raftStorage'.snap
  /\ loop'.snapi = loop.appliedi
InWindow == loop.snapi <= loop.appliedi /\ loop.appliedi <= loop.snapi + SnapCount
\* As stated: the window at every advance signal, and snapi never ahead.
C23_SnapNeverAhead ==
  /\ ~halted /\ AtStep("advance") => InWindow
  /\ loop.snapi <= loop.appliedi
\* C23 with snapi not ahead of appliedi where the subtraction is evaluated
\* and where the advance is signalled: between saving an incoming snapshot
\* and restoring the Store from it snapi is ahead of appliedi.
C23_WindowAtAdvance ==
  /\ [](~halted /\ AtStep("advance") => InWindow)
  /\ [](~halted /\ AtStep("snapshot") => loop.snapi <= loop.appliedi)
  /\ [][~halted /\ AtStep("snapshot") /\ ~AtStep("snapshot")' /\ ~halted'
          /\ loop.appliedi - loop.snapi > SnapCount => SnapshotTaken]_vars
\* A snapshot was cut at appliedi and the goroutine is about to signal.
C23_Witness ==
  /\ ~halted /\ AtStep("advance")
  /\ loop.snapi = loop.appliedi /\ loop.snapi > SnapCount
  /\ storage.segs > 1 /\ storage.snap.Index = loop.snapi
  /\ storage.snap.Data = registrySave(store)

\* C24: after a successful updateColony{Old, New} with both colonies non-nil
\* and all referenced bees present, every cell owned by Old is owned by New,
\* every member of New has BeeInfo.Colony = New, every member of Old that is
\* not contained in New has a nil colony, and no other bee's colony and no
\* other cell's owner changes.
MembersOf(c) == {c.Leader} \cup Members(c.Followers)
UpdateInputs == {req \in RegistryInputs : req.t = "updateColony"}
UpdateColonyDone(r, up, o) ==
  /\ \A key \in DOMAIN r.Store :
       /\ key \in DOMAIN o.r.Store
       /\ IF Equals(r.Store[key], up.Old) THEN Equals(o.r.Store[key], up.New)
                                          ELSE o.r.Store[key] = r.Store[key]
  /\ DOMAIN o.r.Store = DOMAIN r.Store
  /\ DOMAIN o.r.Bees = DOMAIN r.Bees
  /\ \A b \in DOMAIN r.Bees :
       IF b \in MembersOf(up.New) THEN o.r.Bees[b].Colony = up.New
       ELSE IF b \in MembersOf(up.Old) THEN IsNil(o.r.Bees[b].Colony)
       ELSE o.r.Bees[b].Colony = r.Bees[b].Colony
C24_UpdateColonyRehomes ==
  \A up \in UpdateInputs :
    LET o == updateColony(store, up) IN
      ~o.fatal /\ o.err = NoErr => UpdateColonyDone(store, up, o)
\* C24 in the registries whose mapped cells all belong to the app of the bees.
C24_RehomesWithinApp ==
  (\A key \in DOMAIN store.Store :
     \A b \in DOMAIN store.Bees : key[1] = store.Bees[b].App)
    => C24_UpdateColonyRehomes

\* C25: every write to the registry's state performed by Apply or
\* ApplyConfChange happens while the write lock is held, so that no query
\* method, which runs under the read lock, overlaps with a mutation.
C25_WritesUnderLock ==
  [][regm.at["apply"] \in {"Apply", "ApplyConfChange"}
       /\ regm'.at["apply"] # regm.at["apply"]
       => regm.w = "apply" /\ regm.r = {}]_vars

\* C26: the confState the node validates conf changes against equals the
\* cluster membership as of the last applied index: from the local snapshot
\* at the start, after every accepted conf change, and after the Store was
\* restored from an incoming snapshot that advanced appliedi.
C26_ConfStateIsMembership ==
  ~halted /\ ghost.applied[Len(ghost.applied)].i >= engine.offset =>
    loop.confState = Replay(engine.base, AppliedPrefix).nodes

\* The goroutine g does, in this step, one of the statements of its batch
\* that use storage, the Store or the engine.
UsesNode(g) ==
  /\ \E name \in {"savesnap", "save", "restore", "apply", "snapshot"} : GAt(g, name)
  /\ (g \notin DOMAIN gor' \/ gor'[g] # gor[g] \/ halted')

\* C27: no statement of an in-flight batch that uses storage, the Store or
\* the engine runs once the loop has left its select for the deferred
\* function that stops the engine and closes storage.
C27_NoUseAfterShutdown ==
  [][\A g \in 1..MaxGoroutines : UsesNode(g) => loop.pc = "select"]_vars

\* The goroutine is run whenever it can run.
BatchFairness ==
  \A g \in 1..MaxGoroutines :
    WF_vars(Ready_savesnap(g) \/ Ready_save(g) \/ Ready_send(g) \/ Ready_restore(g)
            \/ Ready_apply(g) \/ Ready_snapshot(g) \/ Ready_done(g))
SpecLoopBatchFair == SpecLoopFair /\ BatchFairness

\* Once done is closed, every goroutine still in flight ends (unless the
\* process has ended).
C27_BatchEnds == done ~> (gor = EmptyMap \/ halted)

\* Every delete from h.reqs ran with the mutex held by the deleting thread.
RemovedUnderMutex == sync.bare = {}

\* The channel of a request was obtained from h.reqs, to remove its entry,
\* by at most one of Rcv, drain and the cancelled Process.
OneRemover == \A p \in SyncCallers : Cardinality(sync.took[p]) <= 1

\* At most one response was sent on the channel of a request.
OneResponse == \A p \in SyncCallers : sync.sent[p] <= 1

\* Neither Rcv nor drain waits at its send for the slot of a channel.
NoSenderBlocks ==
  /\ ~(SAt("rcv", "send") /\ sync.ch[sync.arg["rcv"]] # <<>>)
  /\ ~(SAt("start", "drain_range") /\ \E id \in sync.reqs : sync.ch[id] # <<>>)

\* C28: in Sync, under every interleaving of Rcv, drain and the cancellation
\* of a Process call, the reqs entry of a request is removed by exactly one
\* of them and only while the mutex is held, so at most one response is sent
\* on the request's one-slot channel and no sender blocks on it.
C28_OneRemoverUnderMutex ==
  ~halted => RemovedUnderMutex /\ OneRemover /\ OneResponse /\ NoSenderBlocks

====
